---- MODULE Spec2Model ----
(***************************************************************************)
(* Model of the qsv `stats` engine (src/src/cmd/stats.rs): per-column      *)
(* type inference, the streaming and full-materialization accumulators,    *)
(* Stats::add / Stats::merge / Stats::to_record, the chunked run, the      *)
(* scheduler of run, Args::stats_to_records, and the boolean inference of  *)
(* tojsonl (src/src/cmd/tojsonl.rs, src/src/cmd/schema.rs).                *)
(*                                                                         *)
(* Conventions of the model                                                *)
(*  - a sample (&[u8]) is a sequence of one-character strings;             *)
(*  - Option<T>: None is <<>>, Some(x) is <<x>>;                           *)
(*  - i64 is scaled to IntBits bits (I64_MIN..I64_MAX);                    *)
(*  - an f64 is a fixed-point number of tenths (25 stands for 2.5), so     *)
(*    float arithmetic is exact in the model;                              *)
(*  - a timestamp is a number of ticks, TicksInDay ticks to the day        *)
(*    (the code counts milliseconds, 86_400_000 to the day);               *)
(*  - every output field is a sequence of characters.                      *)
(***************************************************************************)
EXTENDS Integers, Sequences, FiniteSets, TLC

VARIABLES
    args,         \* the Args flags of the run (fixed after Init)
    infer_dates,  \* INFER_DATE_FLAGS[i] of the modelled column
    rows,         \* the samples of the column read so far, in order
    st,           \* the bundle (Stats) fed every row in order
    cur,          \* chunked run: the chunk being read, [b: its bundle, n: its rows]
    parts,        \* chunked run: the results of the finished chunks, in chunk order
    recvd,        \* chunked run: the chunks whose result merge_all has received
    acc,          \* chunked run: merge_all's accumulator, Option<Stats>
    pc,           \* chunked run: "feed", "merge" or "done"
    caller,       \* scheduler: the command that runs the engine: "stats", "schema", "tojsonl"
    stats_args,   \* scheduler: the stats Args (date and job flags) the engine is run with
    env,          \* scheduler: the input file (index, row count, selected headers) and the machine
    INFER_DATE_FLAGS,  \* the static OnceCell<Vec<bool>>: None until set
    DMY_PREFERENCE,    \* the static AtomicBool
    inits,        \* scheduler: the calls of init_date_inference so far
    mode,         \* scheduler: "NotStarted", "Sequential" or "Parallel"
    workers,      \* scheduler: chunk -> [at, row, seen] of the chunk's worker
    merged,       \* scheduler: the chunks whose result merge_all has received
    result,       \* scheduler: Option of the set of rows the returned bundles were computed from
    rpc,          \* scheduler: the position of the run
    stats,        \* stats_to_records: the Vec<Stats> handed in, one bundle per column
    results,      \* stats_to_records: per column pushed, its job and channel: [at, record]
    records,      \* stats_to_records: the output Vec<StringRecord>
    received,     \* stats_to_records: the number of recv() calls that have returned
    field_type_vec,  \* tojsonl: Option of the JsonlType inferred for the column
    wtr           \* tojsonl: the values of the column written so far, one per row

stat_vars == <<args, infer_dates, rows, st, cur, parts, recvd, acc, pc>>

run_vars == <<caller, stats_args, env, INFER_DATE_FLAGS, DMY_PREFERENCE, inits,
              mode, workers, merged, result, rpc>>

render_vars == <<stats, results, records, received, field_type_vec, wtr>>

vars == <<args, infer_dates, rows, st, cur, parts, recvd, acc, pc,
          caller, stats_args, env, INFER_DATE_FLAGS, DMY_PREFERENCE, inits,
          mode, workers, merged, result, rpc,
          stats, results, records, received, field_type_vec, wtr>>

----------------------------------------------------------------------------
(* Bounds *)

MaxRows == 3

(* Scaled machine parameters *)

IntBits == 10
TicksInDay == 4
TsDigits == 3

I64_MAX == 2 ^ (IntBits - 1) - 1
I64_MIN == -(2 ^ (IntBits - 1))

----------------------------------------------------------------------------
(* Option *)

None == <<>>
Some(x) == <<x>>
IsSome(o) == o # <<>>
Unwrap(o) == o[1]

----------------------------------------------------------------------------
(* Characters and text *)

Digits == {"0", "1", "2", "3", "4", "5", "6", "7", "8", "9"}

DigitVal(c) ==
    CASE c = "0" -> 0 [] c = "1" -> 1 [] c = "2" -> 2 [] c = "3" -> 3
      [] c = "4" -> 4 [] c = "5" -> 5 [] c = "6" -> 6 [] c = "7" -> 7
      [] c = "8" -> 8 [] c = "9" -> 9

DigitChar(d) ==
    CASE d = 0 -> "0" [] d = 1 -> "1" [] d = 2 -> "2" [] d = 3 -> "3"
      [] d = 4 -> "4" [] d = 5 -> "5" [] d = 6 -> "6" [] d = 7 -> "7"
      [] d = 8 -> "8" [] d = 9 -> "9"

\* the byte value of a character of the input alphabet (ASCII)
Code(c) ==
    CASE c = "+" -> 43 [] c = "-" -> 45 [] c = "." -> 46 [] c = "/" -> 47
      [] c \in Digits -> 48 + DigitVal(c)
      [] c = "F" -> 70 [] c = "T" -> 84 [] c = "Y" -> 89
      [] c = "a" -> 97 [] c = "b" -> 98 [] c = "f" -> 102 [] c = "n" -> 110
      [] c = "t" -> 116 [] c = "y" -> 121

AllDigits(s) == s # <<>> /\ \A i \in 1..Len(s) : s[i] \in Digits

RECURSIVE DigitsValue(_)
DigitsValue(s) ==
    IF s = <<>> THEN 0
    ELSE 10 * DigitsValue(SubSeq(s, 1, Len(s) - 1)) + DigitVal(s[Len(s)])

RECURSIVE NatStr(_)
NatStr(n) ==
    IF n < 10 THEN <<DigitChar(n)>>
    ELSE NatStr(n \div 10) \o <<DigitChar(n % 10)>>

\* itoa::Buffer::format / integer to_string
Itoa(n) == IF n < 0 THEN <<"-">> \o NatStr(-n) ELSE NatStr(n)

\* str::parse::<i64>: an optional sign, then digits only; out of range is Err
ParseI64(s) ==
    LET signed == s # <<>> /\ s[1] \in {"+", "-"}
        body == IF signed THEN Tail(s) ELSE s
    IN  IF ~AllDigits(body) THEN None
        ELSE LET v == IF signed /\ s[1] = "-" THEN -DigitsValue(body)
                      ELSE DigitsValue(body)
             IN  IF v < I64_MIN \/ v > I64_MAX THEN None ELSE Some(v)

\* str::parse::<f64> on the decimal subset: sign, digits, at most one point;
\* the value in tenths (the samples of the model carry one fractional digit)
ParseF64(s) ==
    LET signed == s # <<>> /\ s[1] \in {"+", "-"}
        body == IF signed THEN Tail(s) ELSE s
        dots == {i \in 1..Len(body) : body[i] = "."}
        ip == IF dots = {} THEN body
              ELSE SubSeq(body, 1, (CHOOSE i \in dots : TRUE) - 1)
        fp == IF dots = {} THEN <<>>
              ELSE SubSeq(body, (CHOOSE i \in dots : TRUE) + 1, Len(body))
        ok == /\ Cardinality(dots) <= 1
              /\ ip \o fp # <<>>
              /\ \A i \in 1..Len(ip) : ip[i] \in Digits
              /\ \A i \in 1..Len(fp) : fp[i] \in Digits
        mag == 10 * DigitsValue(ip) + (IF fp = <<>> THEN 0 ELSE DigitVal(fp[1]))
    IN  IF ~ok THEN None
        ELSE Some(IF signed /\ s[1] = "-" THEN -mag ELSE mag)

\* from_bytes::<i64> / from_bytes::<f64>: parse().unwrap_unchecked()
from_bytes_i64(s) == Unwrap(ParseI64(s))
from_bytes_f64(s) == Unwrap(ParseF64(s))

\* i64 as f64
AsF64(i) == 10 * i

\* i64::saturating_add
saturating_add(a, b) ==
    IF a + b > I64_MAX THEN I64_MAX
    ELSE IF a + b < I64_MIN THEN I64_MIN
    ELSE a + b

\* ryu::Buffer::format of a float: digits, point, one fractional digit
Ryu(x) ==
    LET m == IF x < 0 THEN -x ELSE x
    IN  (IF x < 0 THEN <<"-">> ELSE <<>>)
          \o NatStr(m \div 10) \o <<".">> \o <<DigitChar(m % 10)>>

RECURSIVE Gcd(_, _)
Gcd(a, b) == IF b = 0 THEN a ELSE Gcd(b, a % b)

Abs(x) == IF x < 0 THEN -x ELSE x

\* util::round_num of the rational n/d (d > 0): the exact value, as an
\* integer, a one-digit decimal, or a reduced fraction
round_num(n, d) ==
    LET g == Gcd(Abs(n), d)
        rn == IF g = 0 THEN 0 ELSE n \div g
        rd == IF g = 0 THEN 1 ELSE d \div g
    IN  IF rd = 1 THEN Itoa(rn)
        ELSE IF rd \in {2, 5, 10} THEN Ryu(rn * (10 \div rd))
        ELSE Itoa(rn) \o <<"/">> \o Itoa(rd)

\* bytewise order of two byte strings (Ord for Vec<u8>)
RECURSIVE BytesLess(_, _)
BytesLess(a, b) ==
    IF b = <<>> THEN FALSE
    ELSE IF a = <<>> THEN TRUE
    ELSE IF Code(a[1]) # Code(b[1]) THEN Code(a[1]) < Code(b[1])
    ELSE BytesLess(Tail(a), Tail(b))

----------------------------------------------------------------------------
(* Date parsing: qsv_dateparser::parse_with_preference on two shapes,      *)
(* a unix timestamp (digits only, exactly TsDigits of them) and a          *)
(* calendar date d/d.  The result is the timestamp in ticks.  The unix      *)
(* timestamp is read with parse::<i64>, so it must fit an i64.             *)

IsCalendarDate(s) ==
    Len(s) = 3 /\ s[1] \in Digits /\ s[2] = "/" /\ s[3] \in Digits

parse_with_preference(s) ==
    IF AllDigits(s) /\ Len(s) = TsDigits /\ IsSome(ParseI64(s))
    THEN Some(DigitsValue(s))
    ELSE IF IsCalendarDate(s)
         THEN Some((10 * DigitVal(s[1]) + DigitVal(s[3])) * TicksInDay)
    ELSE None

----------------------------------------------------------------------------
(* FieldType *)

TNull == "TNull"
TString == "TString"
TFloat == "TFloat"
TInteger == "TInteger"
TDate == "TDate"
TDateTime == "TDateTime"

FieldTypes == {TNull, TString, TFloat, TInteger, TDate, TDateTime}

\* from_sample without the leading-zero rule
from_sample_NoLeadingZero(inferDates, sample, current_type) ==
    IF sample = <<>> THEN <<TNull, None>>
    ELSE IF current_type = TString THEN <<TString, None>>
    ELSE IF /\ current_type \in {TFloat, TInteger, TNull}
            /\ IsSome(ParseI64(sample))
         THEN <<TInteger, None>>
    ELSE IF /\ current_type \in {TFloat, TInteger, TNull}
            /\ IsSome(ParseF64(sample))
         THEN <<TFloat, None>>
    ELSE IF /\ inferDates
            /\ current_type \in {TDate, TDateTime, TNull}
            /\ IsSome(parse_with_preference(sample))
         THEN LET ts_val == Unwrap(parse_with_preference(sample))
              IN  IF ts_val % TicksInDay = 0 THEN <<TDate, Some(ts_val)>>
                  ELSE <<TDateTime, Some(ts_val)>>
    ELSE <<TString, None>>

\* from_sample with the date parse attempted whatever the running type
from_sample_DatesAnyType(inferDates, sample, current_type) ==
    IF sample = <<>> THEN <<TNull, None>>
    ELSE IF current_type = TString THEN <<TString, None>>
    ELSE IF /\ current_type \in {TFloat, TInteger, TNull}
            /\ IsSome(ParseI64(sample))
         THEN IF sample[1] = "0" /\ Unwrap(ParseI64(sample)) # 0
              THEN <<TString, None>>
              ELSE <<TInteger, None>>
    ELSE IF /\ current_type \in {TFloat, TInteger, TNull}
            /\ IsSome(ParseF64(sample))
         THEN <<TFloat, None>>
    ELSE IF /\ inferDates
            /\ IsSome(parse_with_preference(sample))
         THEN LET ts_val == Unwrap(parse_with_preference(sample))
              IN  IF ts_val % TicksInDay = 0 THEN <<TDate, Some(ts_val)>>
                  ELSE <<TDateTime, Some(ts_val)>>
    ELSE <<TString, None>>

\* FieldType::from_sample: <<type of the sample, Option<timestamp>>>
from_sample(inferDates, sample, current_type) ==
    IF sample = <<>> THEN <<TNull, None>>
    ELSE IF current_type = TString THEN <<TString, None>>
    ELSE IF /\ current_type \in {TFloat, TInteger, TNull}
            /\ IsSome(ParseI64(sample))
         THEN IF sample[1] = "0" /\ Unwrap(ParseI64(sample)) # 0
              THEN <<TString, None>>
              ELSE <<TInteger, None>>
    ELSE IF /\ current_type \in {TFloat, TInteger, TNull}
            /\ IsSome(ParseF64(sample))
         THEN <<TFloat, None>>
    ELSE IF /\ inferDates
            /\ current_type \in {TDate, TDateTime, TNull}
            /\ IsSome(parse_with_preference(sample))
         THEN LET ts_val == Unwrap(parse_with_preference(sample))
              IN  IF ts_val % TicksInDay = 0 THEN <<TDate, Some(ts_val)>>
                  ELSE <<TDateTime, Some(ts_val)>>
    ELSE <<TString, None>>

\* the merge with the Null arm yielding the other side always, so that an
\* empty sample resets the type
FieldTypeMergeNullResets(self, other) ==
    CASE self = TString /\ other = TString -> TString
      [] self = TFloat /\ other = TFloat -> TFloat
      [] self = TInteger /\ other = TInteger -> TInteger
      [] self = TNull \/ other = TNull -> other
      [] {self, other} = {TFloat, TInteger} -> TFloat
      [] self = TDate /\ other = TDate -> TDate
      [] self \in {TDateTime, TDate} /\ other = TDateTime -> TDateTime
      [] self = TDateTime /\ other = TDate -> TDateTime
      [] OTHER -> TString

\* the merge in which a Date absorbs a DateTime
FieldTypeMergeDateAbsorbs(self, other) ==
    IF self = TNull THEN other
    ELSE IF other = TNull THEN self
    ELSE IF self = other THEN self
    ELSE IF {self, other} = {TFloat, TInteger} THEN TFloat
    ELSE IF {self, other} = {TDate, TDateTime} THEN TDate
    ELSE TString

\* the merge in which the later type wins between Integer and Float
FieldTypeMergeLastNumericWins(self, other) ==
    IF self = TNull THEN other
    ELSE IF other = TNull THEN self
    ELSE IF self = other THEN self
    ELSE IF {self, other} = {TFloat, TInteger} THEN other
    ELSE IF {self, other} = {TDate, TDateTime} THEN TDateTime
    ELSE TString

\* impl Commute for FieldType
FieldTypeMerge(self, other) ==
    CASE self = TString /\ other = TString -> TString
      [] self = TFloat /\ other = TFloat -> TFloat
      [] self = TInteger /\ other = TInteger -> TInteger
      [] self = TNull -> other
      [] other = TNull -> self
      [] {self, other} = {TFloat, TInteger} -> TFloat
      [] self = TDate /\ other = TDate -> TDate
      [] self \in {TDateTime, TDate} /\ other = TDateTime -> TDateTime
      [] self = TDateTime /\ other = TDate -> TDateTime
      [] OTHER -> TString

\* impl fmt::Display for FieldType
TypeName(t) ==
    CASE t = TNull -> <<"N", "U", "L", "L">>
      [] t = TString -> <<"S", "t", "r", "i", "n", "g">>
      [] t = TFloat -> <<"F", "l", "o", "a", "t">>
      [] t = TInteger -> <<"I", "n", "t", "e", "g", "e", "r">>
      [] t = TDate -> <<"D", "a", "t", "e">>
      [] t = TDateTime -> <<"D", "a", "t", "e", "T", "i", "m", "e">>

----------------------------------------------------------------------------
(* TypedSum *)

TypedSumDefault == [integer |-> 0, float |-> None]

\* TypedSum::add that assigns the integer sample instead of adding it
TypedSumAddAssign(self, typ, sample) ==
    IF sample = <<>> THEN self
    ELSE IF typ = TFloat
         THEN IF self.float = None
              THEN [self EXCEPT !.float =
                        Some(AsF64(self.integer) + from_bytes_f64(sample))]
              ELSE [self EXCEPT !.float =
                        Some(Unwrap(self.float) + from_bytes_f64(sample))]
    ELSE IF typ = TInteger
         THEN IF IsSome(self.float)
              THEN [self EXCEPT !.float =
                        Some(Unwrap(self.float) + from_bytes_f64(sample))]
              ELSE [self EXCEPT !.integer = from_bytes_i64(sample)]
    ELSE self

\* TypedSum::add that starts the float sum without the integer sum so far
TypedSumAddNoFold(self, typ, sample) ==
    IF sample = <<>> THEN self
    ELSE IF typ = TFloat
         THEN IF self.float = None
              THEN [self EXCEPT !.float = Some(from_bytes_f64(sample))]
              ELSE [self EXCEPT !.float =
                        Some(Unwrap(self.float) + from_bytes_f64(sample))]
    ELSE IF typ = TInteger
         THEN IF IsSome(self.float)
              THEN [self EXCEPT !.float =
                        Some(Unwrap(self.float) + from_bytes_f64(sample))]
              ELSE [self EXCEPT !.integer =
                        saturating_add(self.integer, from_bytes_i64(sample))]
    ELSE self

\* TypedSum::add
TypedSumAdd(self, typ, sample) ==
    IF sample = <<>> THEN self
    ELSE IF typ = TFloat
         THEN IF self.float = None
              THEN [self EXCEPT !.float =
                        Some(AsF64(self.integer) + from_bytes_f64(sample))]
              ELSE [self EXCEPT !.float =
                        Some(Unwrap(self.float) + from_bytes_f64(sample))]
    ELSE IF typ = TInteger
         THEN IF IsSome(self.float)
              THEN [self EXCEPT !.float =
                        Some(Unwrap(self.float) + from_bytes_f64(sample))]
              ELSE [self EXCEPT !.integer =
                        saturating_add(self.integer, from_bytes_i64(sample))]
    ELSE self

OVERFLOW == <<"O", "V", "E", "R", "F", "L", "O", "W">>
UNDERFLOW == <<"U", "N", "D", "E", "R", "F", "L", "O", "W">>

\* TypedSum::show: Option<String>
TypedSumShow(self, typ) ==
    IF typ \in {TNull, TString, TDate, TDateTime} THEN None
    ELSE IF typ = TInteger
         THEN IF self.integer = I64_MAX THEN Some(OVERFLOW)
              ELSE IF self.integer = I64_MIN THEN Some(UNDERFLOW)
              ELSE Some(Itoa(self.integer))
    ELSE Some(Ryu(IF IsSome(self.float) THEN Unwrap(self.float) ELSE 0))

\* impl Commute for TypedSum
TypedSumMerge(self, other) ==
    IF IsSome(self.float) /\ IsSome(other.float)
    THEN [self EXCEPT !.float = Some(Unwrap(self.float) + Unwrap(other.float))]
    ELSE IF IsSome(self.float)
    THEN [self EXCEPT !.float = Some(Unwrap(self.float) + AsF64(other.integer))]
    ELSE IF IsSome(other.float)
    THEN [self EXCEPT !.float = Some(AsF64(self.integer) + Unwrap(other.float))]
    ELSE [self EXCEPT !.integer = saturating_add(self.integer, other.integer)]

----------------------------------------------------------------------------
(* stats::MinMax<T> *)

MinMaxDefault == [min |-> None, max |-> None]

IntLess(a, b) == a < b

MinMaxAdd(mm, x, Less(_, _)) ==
    [min |-> IF mm.min = None \/ Less(x, Unwrap(mm.min)) THEN Some(x) ELSE mm.min,
     max |-> IF mm.max = None \/ Less(Unwrap(mm.max), x) THEN Some(x) ELSE mm.max]

MinMaxMerge(self, other, Less(_, _)) ==
    LET a == IF IsSome(other.min) THEN MinMaxAdd(self, Unwrap(other.min), Less)
             ELSE self
    IN  IF IsSome(other.max) THEN MinMaxAdd(a, Unwrap(other.max), Less) ELSE a

----------------------------------------------------------------------------
(* TypedMinMax *)

TypedMinMaxDefault ==
    [strings |-> MinMaxDefault, str_len |-> MinMaxDefault,
     integers |-> MinMaxDefault, floats |-> MinMaxDefault,
     dates |-> MinMaxDefault]

\* f64 as i64: truncation toward zero, saturating
F64AsI64(x) ==
    LET t == IF x < 0 THEN -((-x) \div 10) ELSE x \div 10
    IN  IF t > I64_MAX THEN I64_MAX ELSE IF t < I64_MIN THEN I64_MIN ELSE t

\* TypedMinMax::add
TypedMinMaxAdd(self, typ, sample) ==
    LET a == [self EXCEPT !.str_len = MinMaxAdd(self.str_len, Len(sample), IntLess)]
    IN  IF sample = <<>> THEN a
        ELSE LET b == [a EXCEPT !.strings = MinMaxAdd(a.strings, sample, BytesLess)]
             IN  CASE typ \in {TString, TNull} -> b
                   [] typ = TFloat ->
                        LET n == from_bytes_f64(sample)
                        IN  [b EXCEPT
                               !.floats = MinMaxAdd(b.floats, n, IntLess),
                               !.integers = MinMaxAdd(b.integers, F64AsI64(n), IntLess)]
                   [] typ = TInteger ->
                        LET n == from_bytes_i64(sample)
                        IN  [b EXCEPT
                               !.integers = MinMaxAdd(b.integers, n, IntLess),
                               !.floats = MinMaxAdd(b.floats, AsF64(n), IntLess)]
                   [] typ \in {TDate, TDateTime} ->
                        [b EXCEPT !.dates =
                            MinMaxAdd(b.dates, from_bytes_i64(sample), IntLess)]

\* impl Commute for TypedMinMax
TypedMinMaxMerge(self, other) ==
    [strings |-> MinMaxMerge(self.strings, other.strings, BytesLess),
     str_len |-> MinMaxMerge(self.str_len, other.str_len, IntLess),
     integers |-> MinMaxMerge(self.integers, other.integers, IntLess),
     floats |-> MinMaxMerge(self.floats, other.floats, IntLess),
     dates |-> MinMaxMerge(self.dates, other.dates, IntLess)]

\* TypedMinMax::len_range
len_range(self) ==
    IF IsSome(self.str_len.min) /\ IsSome(self.str_len.max)
    THEN Some(<<Itoa(Unwrap(self.str_len.min)), Itoa(Unwrap(self.str_len.max))>>)
    ELSE None

\* timestamp_ms_to_rfc3339: the day, and for a DateTime the time of day
timestamp_ms_to_rfc3339(timestamp, typ) ==
    LET day == timestamp \div TicksInDay
        date_val == <<"d">> \o Itoa(day)
    IN  IF typ = TDate THEN date_val
        ELSE date_val \o <<"T">> \o Itoa(timestamp % TicksInDay)

\* TypedMinMax::show: Option<(min, max, range)>
TypedMinMaxShow(self, typ) ==
    CASE typ = TNull -> None
      [] typ = TString ->
           IF IsSome(self.strings.min) /\ IsSome(self.strings.max)
           THEN Some(<<Unwrap(self.strings.min), Unwrap(self.strings.max), <<>>>>)
           ELSE None
      [] typ = TInteger ->
           IF IsSome(self.integers.min) /\ IsSome(self.integers.max)
           THEN Some(<<Itoa(Unwrap(self.integers.min)),
                       Itoa(Unwrap(self.integers.max)),
                       Itoa(Unwrap(self.integers.max) - Unwrap(self.integers.min))>>)
           ELSE None
      [] typ = TFloat ->
           IF IsSome(self.floats.min) /\ IsSome(self.floats.max)
           THEN Some(<<Ryu(Unwrap(self.floats.min)),
                       Ryu(Unwrap(self.floats.max)),
                       round_num(Unwrap(self.floats.max) - Unwrap(self.floats.min), 10)>>)
           ELSE None
      [] typ \in {TDateTime, TDate} ->
           IF IsSome(self.dates.min) /\ IsSome(self.dates.max)
           THEN Some(<<timestamp_ms_to_rfc3339(Unwrap(self.dates.min), typ),
                       timestamp_ms_to_rfc3339(Unwrap(self.dates.max), typ),
                       round_num(Unwrap(self.dates.max) - Unwrap(self.dates.min),
                                 TicksInDay)>>)
           ELSE None

----------------------------------------------------------------------------
(* stats::OnlineStats: population size, sum and sum of squares of the      *)
(* samples (in tenths and hundredths); the mean and the variance the       *)
(* crate keeps are functions of these.                                     *)

OnlineStatsDefault == [size |-> 0, sum |-> 0, sumsq |-> 0]

OnlineAdd(v, n) == [size |-> v.size + 1, sum |-> v.sum + n, sumsq |-> v.sumsq + n * n]

\* OnlineStats::add_null: one more member of the population, worth zero
OnlineAddNull(v) == OnlineAdd(v, 0)

OnlineMerge(self, other) ==
    [size |-> self.size + other.size, sum |-> self.sum + other.sum,
     sumsq |-> self.sumsq + other.sumsq]

NaN == <<"N", "a", "N">>

\* round_num(v.mean())
OnlineMeanStr(v) == IF v.size = 0 THEN Itoa(0) ELSE round_num(v.sum, 10 * v.size)

\* v.mean() as i64
OnlineMeanI64(v) == IF v.size = 0 THEN 0 ELSE F64AsI64(v.sum \div v.size)

\* round_num(v.variance() / unit^2): population variance
OnlineVarianceStr(v, unit) ==
    IF v.size = 0 THEN NaN
    ELSE round_num(v.size * v.sumsq - v.sum * v.sum,
                   100 * v.size * v.size * unit * unit)

\* round_num(v.stddev() / unit): the square root of the variance
OnlineStddevStr(v, unit) ==
    IF v.size = 0 THEN NaN
    ELSE IF v.size * v.sumsq - v.sum * v.sum = 0 THEN Itoa(0)
    ELSE <<"s", "q", "r", "t", "(">> \o OnlineVarianceStr(v, unit) \o <<")">>

----------------------------------------------------------------------------
(* stats::Unsorted<T>: every sample, in insertion order *)

UnsortedDefault == <<>>

UnsortedAdd(v, x) == Append(v, x)

\* impl Commute for Unsorted: the other's data is appended
UnsortedMerge(self, other) == self \o other

RECURSIVE SortedInsert(_, _)
SortedInsert(s, x) ==
    IF s = <<>> THEN <<x>>
    ELSE IF x < s[1] THEN <<x>> \o s
    ELSE <<s[1]>> \o SortedInsert(Tail(s), x)

\* the data sorted ascending (Unsorted sorts before every order statistic)
RECURSIVE Sorted(_)
Sorted(s) ==
    IF s = <<>> THEN <<>>
    ELSE SortedInsert(Sorted(Tail(s)), s[1])

\* median of sorted numbers with a common denominator d: <<numerator, d'>>
MedianOnSorted(data, d) ==
    LET n == Len(data)
    IN  IF n = 0 THEN None
        ELSE IF n % 2 = 1 THEN Some(<<data[(n + 1) \div 2], d>>)
        ELSE Some(<<data[n \div 2] + data[n \div 2 + 1], 2 * d>>)

\* Unsorted<f64>::median
UnsortedMedian(v) == MedianOnSorted(Sorted(v), 10)

\* Unsorted<f64>::mad(existing_median): the median of the absolute
\* deviations from the median (the given one, else the data's own)
UnsortedMad(v, existing_median) ==
    IF v = <<>> THEN None
    ELSE LET med == IF IsSome(existing_median) THEN Unwrap(existing_median)
                    ELSE Unwrap(UnsortedMedian(v))
             \* deviations in units of 1/20
             m20 == med[1] * (20 \div med[2])
             dev == [i \in 1..Len(v) |-> Abs(2 * v[i] - m20)]
         IN  MedianOnSorted(Sorted(dev), 20)

\* Unsorted<f64>::quartiles: <<q1, q2, q3>> in units of 1/20
UnsortedQuartiles(v) ==
    LET data == Sorted(v)
        len == Len(data)
        r == len % 4
        k == len \div 4
        one(i) == 2 * data[i + 1]
        two(i, j) == data[i + 1] + data[j + 1]
    IN  IF len <= 2 THEN None
        ELSE IF len = 3 THEN Some(<<one(0), one(1), one(2)>>)
        ELSE IF r = 0
             THEN Some(<<two(k - 1, k), two(2 * k - 1, 2 * k), two(3 * k - 1, 3 * k)>>)
        ELSE IF r = 1
             THEN Some(<<two(k - 1, k), one(2 * k), two(3 * k, 3 * k + 1)>>)
        ELSE IF r = 2
             THEN Some(<<one(k), two(2 * k, 2 * k + 1), one(3 * k + 1)>>)
        ELSE Some(<<one(k), one(2 * k + 1), one(3 * k + 2)>>)

Distinct(v) == {v[i] : i \in 1..Len(v)}
Count(v, x) == Cardinality({i \in 1..Len(v) : v[i] = x})

\* Unsorted::cardinality
UnsortedCardinality(v) == Cardinality(Distinct(v))

\* a set of byte strings in ascending bytewise order
RECURSIVE SetToSorted(_)
SetToSorted(S) ==
    IF S = {} THEN <<>>
    ELSE LET m == CHOOSE x \in S : \A y \in S \ {x} : BytesLess(x, y)
         IN  <<m>> \o SetToSorted(S \ {m})

\* Unsorted::modes: <<the values of highest frequency, how many there are,
\* that frequency>>; no value and frequency 0 when every value is unique
UnsortedModes(v) ==
    LET highest == IF v = <<>> THEN 0
                   ELSE CHOOSE c \in 1..Len(v) :
                          /\ \E x \in Distinct(v) : Count(v, x) = c
                          /\ \A x \in Distinct(v) : Count(v, x) <= c
        res == SetToSorted({x \in Distinct(v) : Count(v, x) = highest})
    IN  IF highest <= 1 THEN <<<<>>, 0, 0>>
        ELSE <<res, Len(res), highest>>

\* Unsorted::antimodes: <<the first 10 values of lowest frequency, how many
\* values have it, that frequency>>
UnsortedAntimodes(v) ==
    LET lowest == IF v = <<>> THEN 0
                  ELSE CHOOSE c \in 1..Len(v) :
                         /\ \E x \in Distinct(v) : Count(v, x) = c
                         /\ \A x \in Distinct(v) : Count(v, x) >= c
        res == SetToSorted({x \in Distinct(v) : Count(v, x) = lowest})
    IN  <<SubSeq(res, 1, IF Len(res) > 10 THEN 10 ELSE Len(res)), Len(res), lowest>>

\* Itertools::join(",")
RECURSIVE Join(_)
Join(ss) ==
    IF ss = <<>> THEN <<>>
    ELSE IF Len(ss) = 1 THEN ss[1]
    ELSE ss[1] \o <<",">> \o Join(Tail(ss))

----------------------------------------------------------------------------
(* WhichStats and Stats *)

\* new_stats that keeps the median selection next to the quartiles
new_stats_MedianKept(a) ==
    [include_nulls |-> a.nulls,
     sum |-> ~a.typesonly,
     range |-> ~a.typesonly,
     dist |-> ~a.typesonly,
     cardinality |-> a.everything \/ a.cardinality,
     median |-> a.median,
     mad |-> a.everything \/ a.mad,
     quartiles |-> a.everything \/ a.quartiles,
     mode |-> a.everything \/ a.mode,
     typesonly |-> a.typesonly]

\* Args::new_stats: the WhichStats built from the flags
new_stats(a) ==
    [include_nulls |-> a.nulls,
     sum |-> ~a.typesonly,
     range |-> ~a.typesonly,
     dist |-> ~a.typesonly,
     cardinality |-> a.everything \/ a.cardinality,
     median |-> ~a.everything /\ a.median /\ ~a.quartiles,
     mad |-> a.everything \/ a.mad,
     quartiles |-> a.everything \/ a.quartiles,
     mode |-> a.everything \/ a.mode,
     typesonly |-> a.typesonly]

\* Stats::new
StatsNew(which) ==
    [typ |-> TNull,
     sum |-> IF which.sum THEN Some(TypedSumDefault) ELSE None,
     minmax |-> IF which.range THEN Some(TypedMinMaxDefault) ELSE None,
     online |-> IF which.dist THEN Some(OnlineStatsDefault) ELSE None,
     nullcount |-> 0,
     modes |-> IF which.mode \/ which.cardinality THEN Some(UnsortedDefault) ELSE None,
     median |-> IF ~which.quartiles /\ which.median THEN Some(UnsortedDefault) ELSE None,
     mad |-> IF which.mad THEN Some(UnsortedDefault) ELSE None,
     quartiles |-> IF which.quartiles THEN Some(UnsortedDefault) ELSE None,
     which |-> which]

\* Option::as_mut().map(f): f applied to the content, None left alone
OptMap(o, F(_)) == IF o = None THEN None ELSE Some(F(Unwrap(o)))

\* the accumulators' part of Stats::add with add_null called whether or not
\* nulls are included
StatsAddSampleNullsCounted(self, sample, sample_type, timestamp_val) ==
    LET t == self.typ
        mmSample == IF IsSome(timestamp_val) THEN Itoa(Unwrap(timestamp_val))
                    ELSE sample
        SumF(v) == TypedSumAdd(v, t, sample)
        MinMaxF(v) == TypedMinMaxAdd(v, t, mmSample)
        ModesF(v) == UnsortedAdd(v, sample)
        NullF(v) == OnlineAddNull(v)
        a == [self EXCEPT
                !.sum = OptMap(self.sum, SumF),
                !.minmax = OptMap(self.minmax, MinMaxF),
                !.modes = OptMap(self.modes, ModesF),
                !.nullcount = IF sample_type = TNull THEN @ + 1 ELSE @]
        withNull == [a EXCEPT !.online = OptMap(a.online, NullF)]
        withValue(n) ==
            LET UnsF(v) == UnsortedAdd(v, n)
                OnlF(v) == OnlineAdd(v, n)
            IN  [a EXCEPT
                   !.median = OptMap(a.median, UnsF),
                   !.mad = OptMap(a.mad, UnsF),
                   !.quartiles = OptMap(a.quartiles, UnsF),
                   !.online = OptMap(a.online, OnlF)]
    IN  CASE t = TNull -> withNull
          [] t \in {TFloat, TInteger} ->
               IF sample_type = TNull THEN withNull
               ELSE withValue(from_bytes_f64(sample))
          [] t \in {TDateTime, TDate} ->
               IF sample_type = TNull THEN withNull
               ELSE IF IsSome(timestamp_val)
                    THEN withValue(AsF64(Unwrap(timestamp_val)))
               ELSE a
          [] t = TString -> a


\* Stats::add, the part after the type update: the accumulators
StatsAddSample(self, sample, sample_type, timestamp_val) ==
    LET t == self.typ
        mmSample == IF IsSome(timestamp_val) THEN Itoa(Unwrap(timestamp_val))
                    ELSE sample
        SumF(v) == TypedSumAdd(v, t, sample)
        MinMaxF(v) == TypedMinMaxAdd(v, t, mmSample)
        ModesF(v) == UnsortedAdd(v, sample)
        NullF(v) == OnlineAddNull(v)
        a == [self EXCEPT
                !.sum = OptMap(self.sum, SumF),
                !.minmax = OptMap(self.minmax, MinMaxF),
                !.modes = OptMap(self.modes, ModesF),
                !.nullcount = IF sample_type = TNull THEN @ + 1 ELSE @]
        withNull == IF a.which.include_nulls
                    THEN [a EXCEPT !.online = OptMap(a.online, NullF)]
                    ELSE a
        withValue(n) ==
            LET UnsF(v) == UnsortedAdd(v, n)
                OnlF(v) == OnlineAdd(v, n)
            IN  [a EXCEPT
                   !.median = OptMap(a.median, UnsF),
                   !.mad = OptMap(a.mad, UnsF),
                   !.quartiles = OptMap(a.quartiles, UnsF),
                   !.online = OptMap(a.online, OnlF)]
    IN  CASE t = TNull -> withNull
          [] t \in {TFloat, TInteger} ->
               IF sample_type = TNull THEN withNull
               ELSE withValue(from_bytes_f64(sample))
          [] t \in {TDateTime, TDate} ->
               IF sample_type = TNull THEN withNull
               ELSE IF IsSome(timestamp_val)
                    THEN withValue(AsF64(Unwrap(timestamp_val)))
               ELSE a
          [] t = TString -> a

\* Stats::add without the types-only return
StatsAddNoTypesOnly(self, sample, inferDates) ==
    LET fs == from_sample(inferDates, sample, self.typ)
        typed == [self EXCEPT !.typ = FieldTypeMerge(self.typ, fs[1])]
    IN  StatsAddSample(typed, sample, fs[1], fs[2])

\* Stats::add
StatsAdd(self, sample, inferDates) ==
    LET fs == from_sample(inferDates, sample, self.typ)
        typed == [self EXCEPT !.typ = FieldTypeMerge(self.typ, fs[1])]
    IN  IF self.which.typesonly THEN typed
        ELSE StatsAddSample(typed, sample, fs[1], fs[2])

\* impl Commute for Option<T>
OptMerge(self, other, M(_, _)) ==
    IF self = None THEN other
    ELSE IF other = None THEN self
    ELSE Some(M(Unwrap(self), Unwrap(other)))

\* the assertion that compares the typesonly flag alone
WhichStatsMergeLax(self, other) == self.typesonly # other.typesonly

\* impl Commute for WhichStats: assert_eq!(*self, other)
WhichStatsMergePanics(self, other) == self # other

\* the merge that keeps its own nullcount
StatsMergeKeepNullcount(self, other) ==
    [self EXCEPT
       !.typ = FieldTypeMerge(self.typ, other.typ),
       !.sum = OptMerge(self.sum, other.sum, TypedSumMerge),
       !.minmax = OptMerge(self.minmax, other.minmax, TypedMinMaxMerge),
       !.online = OptMerge(self.online, other.online, OnlineMerge),
       !.modes = OptMerge(self.modes, other.modes, UnsortedMerge),
       !.median = OptMerge(self.median, other.median, UnsortedMerge),
       !.quartiles = OptMerge(self.quartiles, other.quartiles, UnsortedMerge)]

\* impl Commute for Stats (no panic); the MAD data is not among the merged fields
StatsMerge(self, other) ==
    [self EXCEPT
       !.typ = FieldTypeMerge(self.typ, other.typ),
       !.sum = OptMerge(self.sum, other.sum, TypedSumMerge),
       !.minmax = OptMerge(self.minmax, other.minmax, TypedMinMaxMerge),
       !.online = OptMerge(self.online, other.online, OnlineMerge),
       !.nullcount = self.nullcount + other.nullcount,
       !.modes = OptMerge(self.modes, other.modes, UnsortedMerge),
       !.median = OptMerge(self.median, other.median, UnsortedMerge),
       !.quartiles = OptMerge(self.quartiles, other.quartiles, UnsortedMerge)]

\* stat_headers with the cardinality column after the mode columns
stat_headers_CardinalityLast(a) ==
    IF a.typesonly THEN <<"field", "type">>
    ELSE <<"field", "type", "sum", "min", "max", "range", "min_length",
           "max_length", "mean", "stddev", "variance", "nullcount", "sparsity">>
         \o (IF a.median /\ ~a.quartiles /\ ~a.everything THEN <<"median">> ELSE <<>>)
         \o (IF a.mad \/ a.everything THEN <<"mad">> ELSE <<>>)
         \o (IF a.quartiles \/ a.everything
             THEN <<"lower_outer_fence", "lower_inner_fence", "q1", "q2_median",
                    "q3", "iqr", "upper_inner_fence", "upper_outer_fence", "skewness">>
             ELSE <<>>)
         \o (IF a.mode \/ a.everything
             THEN <<"mode", "mode_count", "mode_occurrences", "antimode",
                    "antimode_count", "antimode_occurrences">>
             ELSE <<>>)
         \o (IF a.cardinality \/ a.everything THEN <<"cardinality">> ELSE <<>>)

\* Args::stat_headers
stat_headers(a) ==
    IF a.typesonly THEN <<"field", "type">>
    ELSE <<"field", "type", "sum", "min", "max", "range", "min_length",
           "max_length", "mean", "stddev", "variance", "nullcount", "sparsity">>
         \o (IF a.median /\ ~a.quartiles /\ ~a.everything THEN <<"median">> ELSE <<>>)
         \o (IF a.mad \/ a.everything THEN <<"mad">> ELSE <<>>)
         \o (IF a.quartiles \/ a.everything
             THEN <<"lower_outer_fence", "lower_inner_fence", "q1", "q2_median",
                    "q3", "iqr", "upper_inner_fence", "upper_outer_fence", "skewness">>
             ELSE <<>>)
         \o (IF a.cardinality \/ a.everything THEN <<"cardinality">> ELSE <<>>)
         \o (IF a.mode \/ a.everything
             THEN <<"mode", "mode_count", "mode_occurrences", "antimode",
                    "antimode_count", "antimode_occurrences">>
             ELSE <<>>)

----------------------------------------------------------------------------
(* Stats::to_record *)

empty == <<>>
ALL == <<"*", "A", "L", "L">>
PREVIEW == <<"*", "P", "R", "E", "V", "I", "E", "W", ":", " ">>
NULL == <<"N", "U", "L", "L">>

\* a rational n/d as i64: truncation toward zero, saturating
RatAsI64(n, d) ==
    LET t == IF n < 0 THEN -((-n) \div d) ELSE n \div d
    IN  IF t > I64_MAX THEN I64_MAX ELSE IF t < I64_MIN THEN I64_MIN ELSE t

\* the sum field
SumPieces(self) ==
    LET typ == self.typ
        shown == IF self.sum = None THEN None ELSE TypedSumShow(Unwrap(self.sum), typ)
    IN  IF IsSome(shown)
        THEN IF typ = TFloat
             THEN IF IsSome(ParseF64(Unwrap(shown)))
                  THEN <<round_num(Unwrap(ParseF64(Unwrap(shown))), 10)>>
                  ELSE <<<<"E", "R", "R", "O", "R">>>>
             ELSE <<Unwrap(shown)>>
        ELSE <<empty>>

\* min, max, range, min_length, max_length
MinMaxPieces(self) ==
    LET typ == self.typ
        mm == IF self.minmax = None THEN None
              ELSE TypedMinMaxShow(Unwrap(self.minmax), typ)
        lr == IF self.minmax = None THEN None ELSE len_range(Unwrap(self.minmax))
    IN  (IF IsSome(mm) THEN Unwrap(mm) ELSE <<empty, empty, empty>>)
        \o (IF typ \in {TDate, TDateTime} THEN <<empty, empty>>
            ELSE IF IsSome(lr) THEN Unwrap(lr)
            ELSE <<empty, empty>>)

\* mean, stddev, variance
OnlinePieces(self) ==
    LET typ == self.typ
    IN  IF typ \in {TString, TNull} THEN <<empty, empty, empty>>
        ELSE IF IsSome(self.online)
             THEN LET v == Unwrap(self.online)
                  IN  IF typ \in {TFloat, TInteger}
                      THEN <<OnlineMeanStr(v), OnlineStddevStr(v, 1),
                             OnlineVarianceStr(v, 1)>>
                      ELSE <<timestamp_ms_to_rfc3339(OnlineMeanI64(v), typ),
                             OnlineStddevStr(v, TicksInDay), empty>>
        ELSE <<empty, empty, empty>>

\* nullcount, sparsity (RECORD_COUNT, or 1 when it was never set)
NullPieces(self, record_count) ==
    <<Itoa(self.nullcount),
      IF record_count = 0 THEN NaN ELSE round_num(self.nullcount, record_count)>>

\* the median the median accumulator yields for this type, Option
ExistingMedian(self) ==
    IF self.median = None \/ self.typ \in {TNull, TString} THEN None
    ELSE UnsortedMedian(Unwrap(self.median))

MedianPieces(self) ==
    LET typ == self.typ
        m == ExistingMedian(self)
    IN  IF IsSome(m)
        THEN IF typ \in {TDateTime, TDate}
             THEN <<timestamp_ms_to_rfc3339(RatAsI64(Unwrap(m)[1], Unwrap(m)[2]), typ)>>
             ELSE <<round_num(Unwrap(m)[1], Unwrap(m)[2])>>
        ELSE IF self.which.median THEN <<empty>>
        ELSE <<>>

\* the MAD the MAD accumulator yields for this type, Option
MadValue(self) ==
    IF self.mad = None \/ self.typ \in {TNull, TString} THEN None
    ELSE UnsortedMad(Unwrap(self.mad), ExistingMedian(self))

MadPieces(self) ==
    LET typ == self.typ
        m == MadValue(self)
    IN  IF IsSome(m)
        THEN IF typ \in {TDateTime, TDate}
             THEN <<round_num(Unwrap(m)[1], Unwrap(m)[2] * TicksInDay)>>
             ELSE <<round_num(Unwrap(m)[1], Unwrap(m)[2])>>
        ELSE IF self.which.mad THEN <<empty>>
        ELSE <<>>

QuartilePieces(self) ==
    LET typ == self.typ
        q == IF self.quartiles = None \/ typ \notin {TInteger, TFloat, TDate, TDateTime}
             THEN None
             ELSE UnsortedQuartiles(Unwrap(self.quartiles))
    IN  IF q = None
        THEN IF self.which.quartiles
             THEN <<empty, empty, empty, empty, empty, empty, empty, empty, empty>>
             ELSE <<>>
        ELSE LET q1 == Unwrap(q)[1]
                 q2 == Unwrap(q)[2]
                 q3 == Unwrap(q)[3]
                 iqr == q3 - q1
                 \* in units of 1/40
                 lof == 2 * q1 - 6 * iqr
                 lif == 2 * q1 - 3 * iqr
                 uif == 2 * q3 + 3 * iqr
                 uof == 2 * q3 + 6 * iqr
                 skewness == IF iqr = 0 THEN NaN ELSE round_num(q3 - 2 * q2 + q1, iqr)
             IN  IF typ \in {TDateTime, TDate}
                 THEN <<timestamp_ms_to_rfc3339(RatAsI64(lof, 40), typ),
                        timestamp_ms_to_rfc3339(RatAsI64(lif, 40), typ),
                        timestamp_ms_to_rfc3339(RatAsI64(q1, 20), typ),
                        timestamp_ms_to_rfc3339(RatAsI64(q2, 20), typ),
                        timestamp_ms_to_rfc3339(RatAsI64(q3, 20), typ),
                        round_num(iqr, 20 * TicksInDay),
                        timestamp_ms_to_rfc3339(RatAsI64(uif, 40), typ),
                        timestamp_ms_to_rfc3339(RatAsI64(uof, 40), typ),
                        skewness>>
                 ELSE <<round_num(lof, 40), round_num(lif, 40),
                        round_num(q1, 20), round_num(q2, 20), round_num(q3, 20),
                        round_num(iqr, 20),
                        round_num(uif, 40), round_num(uof, 40),
                        skewness>>

Truncate100(s) ==
    IF Len(s) > 100 THEN SubSeq(s, 1, 100) \o <<".", ".", ".">> ELSE s

\* the antimode fields without the all-unique case
AntimodePiecesAlwaysList(v, mode_occurrences) ==
    LET am == UnsortedAntimodes(v)
        vals == Join(am[1])
        list == (IF am[2] > 10 THEN PREVIEW ELSE <<>>)
                \o (IF vals # <<>> /\ vals[1] = "," THEN NULL ELSE <<>>)
                \o vals
    IN  <<Truncate100(list), Itoa(am[2]), Itoa(am[3])>>

\* antimode, antimode_count, antimode_occurrences
AntimodePieces(v, mode_occurrences) ==
    IF mode_occurrences = 0 THEN <<ALL, Itoa(0), Itoa(1)>>
    ELSE LET am == UnsortedAntimodes(v)
             vals == Join(am[1])
             list == (IF am[2] > 10 THEN PREVIEW ELSE <<>>)
                     \o (IF vals # <<>> /\ vals[1] = "," THEN NULL ELSE <<>>)
                     \o vals
         IN  <<Truncate100(list), Itoa(am[2]), Itoa(am[3])>>

\* cardinality, mode, mode_count, mode_occurrences and the antimode fields
ModePieces(self) ==
    IF self.modes = None
    THEN (IF self.which.cardinality THEN <<empty>> ELSE <<>>)
         \o (IF self.which.mode THEN <<empty, empty, empty, empty>> ELSE <<>>)
    ELSE LET v == Unwrap(self.modes)
             m == UnsortedModes(v)
         IN  (IF self.which.cardinality THEN <<Itoa(UnsortedCardinality(v))>> ELSE <<>>)
             \o (IF self.which.mode
                 THEN <<Join(m[1]), Itoa(m[2]), Itoa(m[3])>> \o AntimodePieces(v, m[3])
                 ELSE <<>>)

\* Stats::to_record
to_record(self, record_count) ==
    IF self.which.typesonly THEN <<TypeName(self.typ)>>
    ELSE <<TypeName(self.typ)>>
         \o SumPieces(self) \o MinMaxPieces(self) \o OnlinePieces(self)
         \o NullPieces(self, record_count)
         \o MedianPieces(self) \o MadPieces(self) \o QuartilePieces(self)
         \o ModePieces(self)

\* the names of the fields a block of to_record pushes: the block's names
\* when it pushes as many fields as it has names
Named(names, pieces) ==
    IF Len(pieces) = Len(names) THEN names
    ELSE [k \in 1..Len(pieces) |-> "?"]

\* Stats::to_record: what each pushed field is, block by block in the order
\* of the pushes
record_names(self, record_count) ==
    IF self.which.typesonly THEN <<"type">>
    ELSE <<"type">>
         \o Named(<<"sum">>, SumPieces(self))
         \o Named(<<"min", "max", "range", "min_length", "max_length">>,
                  MinMaxPieces(self))
         \o Named(<<"mean", "stddev", "variance">>, OnlinePieces(self))
         \o Named(<<"nullcount", "sparsity">>, NullPieces(self, record_count))
         \o Named(<<"median">>, MedianPieces(self))
         \o Named(<<"mad">>, MadPieces(self))
         \o Named(<<"lower_outer_fence", "lower_inner_fence", "q1", "q2_median",
                    "q3", "iqr", "upper_inner_fence", "upper_outer_fence",
                    "skewness">>, QuartilePieces(self))
         \o Named((IF self.which.cardinality THEN <<"cardinality">> ELSE <<>>)
                  \o (IF self.which.mode
                      THEN <<"mode", "mode_count", "mode_occurrences", "antimode",
                             "antimode_count", "antimode_occurrences">>
                      ELSE <<>>),
                  ModePieces(self))

----------------------------------------------------------------------------
(* The runs *)

Flags(e, t, mo, c, me, ma, q, n) ==
    [everything |-> e, typesonly |-> t, mode |-> mo, cardinality |-> c,
     median |-> me, mad |-> ma, quartiles |-> q, nulls |-> n]

\* run: --typesonly switches the other statistics off
RunArgs(a) ==
    IF a.typesonly
    THEN [a EXCEPT !.everything = FALSE, !.mode = FALSE, !.cardinality = FALSE,
                   !.median = FALSE, !.quartiles = FALSE, !.mad = FALSE]
    ELSE a

\* the command lines of the model
CommandLines ==
    {Flags(FALSE, FALSE, FALSE, FALSE, FALSE, FALSE, FALSE, FALSE),
     Flags(FALSE, FALSE, FALSE, FALSE, FALSE, FALSE, FALSE, TRUE),
     Flags(TRUE, TRUE, FALSE, FALSE, FALSE, FALSE, FALSE, FALSE),
     Flags(TRUE, FALSE, FALSE, FALSE, FALSE, FALSE, FALSE, FALSE),
     Flags(TRUE, FALSE, FALSE, FALSE, FALSE, FALSE, FALSE, TRUE),
     Flags(FALSE, FALSE, FALSE, FALSE, TRUE, FALSE, FALSE, FALSE),
     Flags(FALSE, FALSE, FALSE, FALSE, FALSE, TRUE, FALSE, FALSE),
     Flags(FALSE, FALSE, TRUE, TRUE, FALSE, FALSE, FALSE, FALSE),
     Flags(FALSE, FALSE, FALSE, FALSE, TRUE, FALSE, TRUE, FALSE),
     Flags(FALSE, FALSE, FALSE, FALSE, TRUE, TRUE, FALSE, TRUE)}

\* the samples a column is fed: empty, integers, a leading zero, a float,
\* text, and either the i64 extremes or dates and unix timestamps
Pool(inferDates) ==
    {<<>>, <<"1">>, <<"0", "7">>, <<"2", ".", "5">>, <<"a">>}
    \cup (IF inferDates
          THEN {<<"1", "/", "2">>, <<"1", "0", "0">>, <<"1", "0", "1">>}
          ELSE {<<"0">>, <<"-", "1">>, Itoa(I64_MAX), Itoa(I64_MIN)})

\* nothing rendered yet: stats_to_records not called, no JSON line written
RenderIdle ==
    /\ stats = <<>>
    /\ results = <<>>
    /\ records = <<>>
    /\ received = 0
    /\ field_type_vec = <<>>
    /\ wtr = <<>>

\* the scheduler at rest: nothing run, the statics as the program starts
RunIdle ==
    /\ RenderIdle
    /\ caller = "stats"
    /\ stats_args = [flag_infer_dates |-> FALSE, flag_prefer_dmy |-> FALSE,
                     flag_dates_whitelist |-> <<>>, flag_jobs |-> <<>>]
    /\ env = [indexed |-> FALSE, count |-> 0, headers |-> <<>>, cpus |-> 1,
              QSV_PREFER_DMY |-> FALSE]
    /\ INFER_DATE_FLAGS = <<>>
    /\ DMY_PREFERENCE = FALSE
    /\ inits = 0
    /\ mode = "NotStarted"
    /\ workers = <<>>
    /\ merged = {}
    /\ result = <<>>
    /\ rpc = "idle"

\* a bundle as Args::compute creates it, and no row read yet
Fresh == [b |-> StatsNew(new_stats(args)), n |-> 0]

\* one column read sequentially
Init ==
    /\ args \in {RunArgs(a) : a \in CommandLines}
    /\ infer_dates \in BOOLEAN
    /\ rows = <<>>
    /\ st = StatsNew(new_stats(args))
    /\ cur = Fresh
    /\ parts = <<>>
    /\ recvd = {}
    /\ acc = None
    /\ pc = "feed"
    /\ RunIdle

\* Args::compute, one row: the column's field goes to the column's bundle
Add(sample) ==
    /\ Len(rows) < MaxRows
    /\ rows' = Append(rows, sample)
    /\ st' = StatsAdd(st, sample, infer_dates)
    /\ UNCHANGED <<args, infer_dates, cur, parts, recvd, acc, pc>>
    /\ UNCHANGED <<run_vars, render_vars>>

Next == \E sample \in Pool(infer_dates) : Add(sample)

Spec == Init /\ [][Next]_vars

----------------------------------------------------------------------------
(* The chunked run of Args::parallel_stats, one column: the rows are cut   *)
(* into contiguous chunks, every chunk is computed into a fresh bundle,    *)
(* and merge_all folds the results in the order they arrive.  st is fed    *)
(* the same rows sequentially, for comparison.                             *)

\* the command lines of the chunked runs of the model
ParCommandLines ==
    {Flags(FALSE, FALSE, FALSE, FALSE, FALSE, FALSE, FALSE, FALSE),
     Flags(FALSE, FALSE, FALSE, FALSE, FALSE, FALSE, FALSE, TRUE),
     Flags(FALSE, TRUE, FALSE, FALSE, FALSE, FALSE, FALSE, FALSE),
     Flags(TRUE, FALSE, FALSE, FALSE, FALSE, FALSE, FALSE, FALSE),
     Flags(FALSE, FALSE, FALSE, FALSE, FALSE, TRUE, FALSE, FALSE),
     Flags(FALSE, FALSE, FALSE, TRUE, TRUE, FALSE, FALSE, FALSE)}

\* the samples of the chunked runs
ParPool(inferDates) ==
    {<<>>, <<"a">>}
    \cup (IF inferDates
          THEN {<<"1", "/", "2">>, <<"1", "0", "0">>}
          ELSE {<<"1">>, <<"2", ".", "5">>})

InitPar ==
    /\ args \in {RunArgs(a) : a \in ParCommandLines}
    /\ infer_dates \in BOOLEAN
    /\ rows = <<>>
    /\ st = StatsNew(new_stats(args))
    /\ cur = Fresh
    /\ parts = <<>>
    /\ recvd = {}
    /\ acc = None
    /\ pc = "feed"
    /\ RunIdle

\* a worker's Args::compute reads one more row of its chunk
ParAdd(sample) ==
    /\ pc = "feed"
    /\ Len(rows) < MaxRows
    /\ rows' = Append(rows, sample)
    /\ st' = StatsAdd(st, sample, infer_dates)
    /\ cur' = [b |-> StatsAdd(cur.b, sample, infer_dates), n |-> cur.n + 1]
    /\ UNCHANGED <<args, infer_dates, parts, recvd, acc, pc>>
    /\ UNCHANGED <<run_vars, render_vars>>

\* the chunk ends (take(chunk_size)); the next worker starts a fresh bundle
ParCut ==
    /\ pc = "feed"
    /\ cur.n > 0
    /\ Len(rows) < MaxRows
    /\ parts' = Append(parts, cur.b)
    /\ cur' = Fresh
    /\ UNCHANGED <<args, infer_dates, rows, st, recvd, acc, pc>>
    /\ UNCHANGED <<run_vars, render_vars>>

\* the last chunk ends
ParFinish ==
    /\ pc = "feed"
    /\ cur.n > 0
    /\ parts' = Append(parts, cur.b)
    /\ cur' = Fresh
    /\ pc' = "merge"
    /\ UNCHANGED <<args, infer_dates, rows, st, recvd, acc>>
    /\ UNCHANGED <<run_vars, render_vars>>

\* merge_all(recv.iter()): the first result received starts the
\* accumulator, every later one is merged into it
ParRecv(i) ==
    /\ pc = "merge"
    /\ i \notin recvd
    /\ recvd' = recvd \cup {i}
    /\ IF acc = None
       THEN acc' = Some(parts[i]) /\ pc' = IF recvd' = DOMAIN parts THEN "done" ELSE "merge"
       ELSE IF WhichStatsMergePanics(Unwrap(acc).which, parts[i].which)
            THEN acc' = acc /\ pc' = "panic"
            ELSE /\ acc' = Some(StatsMerge(Unwrap(acc), parts[i]))
                 /\ pc' = IF recvd' = DOMAIN parts THEN "done" ELSE "merge"
    /\ UNCHANGED <<args, infer_dates, rows, st, cur, parts>>
    /\ UNCHANGED <<run_vars, render_vars>>

NextPar ==
    \/ \E sample \in ParPool(infer_dates) : ParAdd(sample)
    \/ ParCut
    \/ ParFinish
    \/ \E i \in DOMAIN parts : ParRecv(i)

SpecPar == InitPar /\ [][NextPar]_vars

----------------------------------------------------------------------------
(* One column read sequentially under every combination of the statistics  *)
(* flags, as Args is built by run or directly by another command.          *)

\* every setting of everything, typesonly, mode, cardinality, median, mad
\* and quartiles
FlagCombinations ==
    {Flags(e, t, mo, c, me, ma, q, FALSE) :
        e \in BOOLEAN, t \in BOOLEAN, mo \in BOOLEAN, c \in BOOLEAN,
        me \in BOOLEAN, ma \in BOOLEAN, q \in BOOLEAN}

InitFlags ==
    /\ args \in FlagCombinations
    /\ infer_dates \in BOOLEAN
    /\ rows = <<>>
    /\ st = StatsNew(new_stats(args))
    /\ cur = Fresh
    /\ parts = <<>>
    /\ recvd = {}
    /\ acc = None
    /\ pc = "feed"
    /\ RunIdle

NextFlags == \E sample \in ParPool(infer_dates) : Add(sample)

SpecFlags == InitFlags /\ [][NextFlags]_vars

----------------------------------------------------------------------------
(* impl Commute for Stats applied to any two bundles: st is self, cur.b is *)
(* other, each built by its own Stats::new and fed its own samples; acc is *)
(* self after the merge.  pc is "left", "right", "done" or "panic".        *)

\* the statistics selections of the two bundles
MergeCommandLines ==
    {Flags(FALSE, FALSE, FALSE, FALSE, FALSE, FALSE, FALSE, FALSE),
     Flags(FALSE, FALSE, FALSE, FALSE, FALSE, FALSE, FALSE, TRUE),
     Flags(FALSE, TRUE, FALSE, FALSE, FALSE, FALSE, FALSE, FALSE),
     Flags(TRUE, FALSE, FALSE, FALSE, FALSE, FALSE, FALSE, FALSE)}

\* the samples of the two bundles: one of every type
MergePool(inferDates) ==
    {<<>>, <<"a">>, <<"1">>, <<"2", ".", "5">>}
    \cup (IF inferDates THEN {<<"1", "/", "2">>, <<"1", "0", "1">>} ELSE {})

InitMerge ==
    /\ args \in {RunArgs(a) : a \in MergeCommandLines}
    /\ infer_dates \in BOOLEAN
    /\ rows = <<>>
    /\ st = StatsNew(new_stats(args))
    /\ cur \in {[b |-> StatsNew(new_stats(RunArgs(a))), n |-> 0] : a \in MergeCommandLines}
    /\ parts = <<>>
    /\ recvd = {}
    /\ acc = None
    /\ pc = "left"
    /\ RunIdle

\* self.add(sample)
MergeAddSelf(sample) ==
    /\ pc = "left"
    /\ Len(rows) + cur.n < MaxRows
    /\ rows' = Append(rows, sample)
    /\ st' = StatsAdd(st, sample, infer_dates)
    /\ UNCHANGED <<args, infer_dates, cur, parts, recvd, acc, pc>>
    /\ UNCHANGED <<run_vars, render_vars>>

\* other.add(sample)
MergeAddOther(sample) ==
    /\ pc \in {"left", "right"}
    /\ Len(rows) + cur.n < MaxRows
    /\ cur' = [b |-> StatsAdd(cur.b, sample, infer_dates), n |-> cur.n + 1]
    /\ pc' = "right"
    /\ UNCHANGED <<args, infer_dates, rows, st, parts, recvd, acc>>
    /\ UNCHANGED <<run_vars, render_vars>>

\* self.merge(other): the fields are merged, then which.merge asserts that
\* the two selections are equal; a failed assertion unwinds and no merged
\* bundle is returned
MergeCall ==
    /\ pc \in {"left", "right"}
    /\ IF WhichStatsMergePanics(st.which, cur.b.which)
       THEN acc' = None /\ pc' = "panic"
       ELSE acc' = Some(StatsMerge(st, cur.b)) /\ pc' = "done"
    /\ UNCHANGED <<args, infer_dates, rows, st, cur, parts, recvd>>
    /\ UNCHANGED <<run_vars, render_vars>>

NextMerge ==
    \/ \E sample \in MergePool(infer_dates) : MergeAddSelf(sample)
    \/ \E sample \in MergePool(infer_dates) : MergeAddOther(sample)
    \/ MergeCall

SpecMerge == InitMerge /\ [][NextMerge]_vars

----------------------------------------------------------------------------
(* The date whitelist: init_date_inference.  A column name and a whitelist *)
(* are sequences of characters.                                            *)

\* char::to_lowercase on the letters of the model
LowerChar(c) ==
    CASE c = "A" -> "a"
      [] c = "D" -> "d"
      [] c = "E" -> "e"
      [] c = "F" -> "f"
      [] c = "L" -> "l"
      [] c = "N" -> "n"
      [] c = "O" -> "o"
      [] c = "T" -> "t"
      [] c = "Y" -> "y"
      [] OTHER -> c

\* str::to_lowercase
to_lowercase(s) == [i \in 1..Len(s) |-> LowerChar(s[i])]

\* the text "all"
all == <<"a", "l", "l">>

\* str::split(','): the pieces between the commas, empty pieces included
RECURSIVE split(_)
split(s) ==
    IF \E i \in 1..Len(s) : s[i] = ","
    THEN LET i == CHOOSE k \in 1..Len(s) :
                      s[k] = "," /\ \A j \in 1..(k - 1) : s[j] # ","
         IN  <<SubSeq(s, 1, i - 1)>> \o split(SubSeq(s, i + 1, Len(s)))
    ELSE <<s>>

\* str::trim: leading and trailing white space removed
RECURSIVE trim(_)
trim(s) ==
    IF s # <<>> /\ Head(s) = " " THEN trim(Tail(s))
    ELSE IF s # <<>> /\ s[Len(s)] = " " THEN trim(SubSeq(s, 1, Len(s) - 1))
    ELSE s

\* str::contains: pat occurs in s as a substring
contains(s, pat) ==
    \E i \in 1..(Len(s) - Len(pat) + 1) : SubSeq(s, i, i + Len(pat) - 1) = pat

\* the loop over the whitelist items, left at the first item the header contains
RECURSIVE date_found(_, _)
date_found(header_str, whitelist) ==
    IF whitelist = <<>> THEN FALSE
    ELSE IF contains(header_str, Head(whitelist)) THEN TRUE
    ELSE date_found(header_str, Tail(whitelist))

\* init_date_inference that matches the column name in the case it is written
infer_date_flags_CaseSensitive(infer_dates_, headers, flag_whitelist) ==
    LET whitelist_lower == to_lowercase(flag_whitelist)
        whitelist == [k \in DOMAIN split(whitelist_lower) |->
                        trim(split(whitelist_lower)[k])]
    IN  [i \in 1..Len(headers) |->
            /\ infer_dates_
            /\ \/ whitelist_lower = all
               \/ date_found(headers[i], whitelist)]

\* init_date_inference: the vector INFER_DATE_FLAGS is set to
infer_date_flags(infer_dates_, headers, flag_whitelist) ==
    IF infer_dates_
    THEN LET whitelist_lower == to_lowercase(flag_whitelist)
         IN  IF whitelist_lower = all
             THEN [i \in 1..Len(headers) |-> TRUE]
             ELSE LET whitelist == [k \in DOMAIN split(whitelist_lower) |->
                                      trim(split(whitelist_lower)[k])]
                  IN  [i \in 1..Len(headers) |->
                          date_found(to_lowercase(headers[i]), whitelist)]
    ELSE [i \in 1..Len(headers) |-> FALSE]

\* init_date_inference as a step: DMY_PREFERENCE is stored when dates are
\* inferred, INFER_DATE_FLAGS is set; OnceCell::set fails on a cell already set
init_date_inference ==
    /\ inits' = inits + 1
    /\ DMY_PREFERENCE' = IF stats_args.flag_infer_dates
                         THEN stats_args.flag_prefer_dmy \/ env.QSV_PREFER_DMY
                         ELSE DMY_PREFERENCE
    /\ INFER_DATE_FLAGS' = IF INFER_DATE_FLAGS = None
                           THEN Some(infer_date_flags(stats_args.flag_infer_dates,
                                                      env.headers,
                                                      stats_args.flag_dates_whitelist))
                           ELSE INFER_DATE_FLAGS

----------------------------------------------------------------------------
(* The scheduler: run, Args::sequential_stats, Args::parallel_stats and    *)
(* the callers of the engine in schema and tojsonl.  The bundles are left  *)
(* out: a result is the set of rows it was computed from.                  *)

\* the rows of an indexed file and the processors of the machine
MaxCount == 5
MaxCpus == 2

\* util::njobs: the --jobs value, the processors when it is absent, 0 or more
njobs(flag_jobs, cpus) ==
    IF flag_jobs = None THEN cpus
    ELSE IF Unwrap(flag_jobs) = 0 \/ Unwrap(flag_jobs) > cpus THEN cpus
    ELSE Unwrap(flag_jobs)

\* util::chunk_size
chunk_size(nitems, jobs) == IF nitems < jobs THEN nitems ELSE nitems \div jobs

\* util::num_of_chunks
num_of_chunks(nitems, size) ==
    IF size = 0 THEN nitems
    ELSE (nitems \div size) + (IF nitems % size # 0 THEN 1 ELSE 0)

\* the chunks of the run, numbered from 0
Chunks ==
    LET size == chunk_size(env.count, njobs(stats_args.flag_jobs, env.cpus))
    IN  0..(num_of_chunks(env.count, size) - 1)

\* the rows of chunk i were the seek to row i, not to row i * chunk_size
ChunkRowsSeekIndex(i) ==
    LET size == chunk_size(env.count, njobs(stats_args.flag_jobs, env.cpus))
    IN  {r \in 1..env.count : i < r /\ r <= i + size}

\* idx.seek(i * chunk_size), byte_records().take(chunk_size): the rows of chunk i
ChunkRows(i) ==
    LET size == chunk_size(env.count, njobs(stats_args.flag_jobs, env.cpus))
    IN  {r \in 1..env.count : i * size < r /\ r <= (i + 1) * size}

\* schema's get_stats_records: the stats Args built from the schema Args
StatsArgsOfSchema(a, cpus) ==
    [flag_infer_dates |-> TRUE,
     flag_prefer_dmy |-> a.flag_prefer_dmy,
     flag_dates_whitelist |-> a.flag_dates_whitelist,
     flag_jobs |-> Some(njobs(a.flag_jobs, cpus))]

\* tojsonl's run: the schema Args built from the tojsonl Args
SchemaArgsOfTojsonl(a, cpus) ==
    [flag_prefer_dmy |-> FALSE,
     flag_dates_whitelist |-> <<"n", "o", "n", "e">>,
     flag_jobs |-> Some(njobs(a.flag_jobs, cpus))]

\* the stats Args of a run started by command c with the command line a
StatsArgsOf(c, a, cpus) ==
    IF c = "stats" THEN a
    ELSE IF c = "schema" THEN StatsArgsOfSchema(a, cpus)
    ELSE StatsArgsOfSchema(SchemaArgsOfTojsonl(a, cpus), cpus)

\* the statistics variables, unused by the scheduler runs
StatIdle ==
    /\ args = Flags(FALSE, FALSE, FALSE, FALSE, FALSE, FALSE, FALSE, FALSE)
    /\ infer_dates = FALSE
    /\ rows = <<>>
    /\ st = StatsNew(new_stats(args))
    /\ cur = Fresh
    /\ parts = <<>>
    /\ recvd = {}
    /\ acc = None
    /\ pc = "idle"

\* the command lines of the scheduler runs
RunCommandLines ==
    {[flag_infer_dates |-> i, flag_prefer_dmy |-> i /\ d,
      flag_dates_whitelist |-> w, flag_jobs |-> j] :
        i \in BOOLEAN, d \in BOOLEAN,
        w \in {all, <<"d">>},
        j \in {None} \cup {Some(n) : n \in 0..MaxCpus}}

\* the input files and machines of the scheduler runs
RunEnvs ==
    {[indexed |-> x, count |-> n, headers |-> << <<"d">>, <<"x">> >>, cpus |-> c,
      QSV_PREFER_DMY |-> FALSE] :
        x \in BOOLEAN, n \in 0..MaxCount, c \in 1..MaxCpus}

\* the scheduler before the run: no static written, no worker
RunStart ==
    /\ RenderIdle
    /\ INFER_DATE_FLAGS = None
    /\ DMY_PREFERENCE = FALSE
    /\ inits = 0
    /\ mode = "NotStarted"
    /\ workers = <<>>
    /\ merged = {}
    /\ result = None
    /\ rpc = "run"

InitRun ==
    /\ StatIdle
    /\ caller \in {"stats", "schema", "tojsonl"}
    /\ env \in RunEnvs
    /\ stats_args \in {StatsArgsOf(caller, a, env.cpus) : a \in RunCommandLines}
    /\ RunStart

\* run (stats) and get_stats_records (schema, tojsonl): without an index
\* sequential_stats; with one, run calls sequential_stats when --jobs is 1
\* and parallel_stats otherwise, get_stats_records always parallel_stats
Dispatch ==
    /\ rpc = "run"
    /\ rpc' = IF ~env.indexed THEN "sequential_stats"
              ELSE IF caller = "stats" /\ stats_args.flag_jobs = Some(1)
                   THEN "sequential_stats"
              ELSE "parallel_stats"
    /\ UNCHANGED <<caller, stats_args, env, INFER_DATE_FLAGS, DMY_PREFERENCE,
                   inits, mode, workers, merged, result>>
    /\ UNCHANGED <<stat_vars, render_vars>>

\* Args::sequential_stats: the statics are initialised, compute reads every
\* row in one pass
SequentialStats ==
    /\ rpc = "sequential_stats"
    /\ init_date_inference
    /\ IF INFER_DATE_FLAGS = None
       THEN mode' = "Sequential" /\ result' = Some(1..env.count) /\ rpc' = "to_records"
       ELSE mode' = mode /\ result' = result /\ rpc' = "error"
    /\ UNCHANGED <<caller, stats_args, env, workers, merged>>
    /\ UNCHANGED <<stat_vars, render_vars>>

\* Args::parallel_stats without the zero-row return
ParallelStatsNoZeroCheck ==
    /\ rpc = "parallel_stats"
    /\ init_date_inference
    /\ rpc' = IF INFER_DATE_FLAGS = None THEN "spawn" ELSE "error"
    /\ UNCHANGED <<caller, stats_args, env, mode, workers, merged, result>>
    /\ UNCHANGED <<stat_vars, render_vars>>

\* Args::parallel_stats up to the chunking: an index of zero rows is handed to
\* sequential_stats, otherwise the statics are initialised
ParallelStats ==
    /\ rpc = "parallel_stats"
    /\ IF env.count = 0
       THEN /\ rpc' = "sequential_stats"
            /\ UNCHANGED <<INFER_DATE_FLAGS, DMY_PREFERENCE, inits>>
       ELSE /\ init_date_inference
            /\ rpc' = IF INFER_DATE_FLAGS = None THEN "spawn" ELSE "error"
    /\ UNCHANGED <<caller, stats_args, env, mode, workers, merged, result>>
    /\ UNCHANGED <<stat_vars, render_vars>>

\* Args::parallel_stats: the pool is created and one job per chunk is queued
Spawn ==
    /\ rpc = "spawn"
    /\ workers' = [i \in Chunks |-> [at |-> "queued", row |-> 0, seen |-> {}]]
    /\ mode' = "Parallel"
    /\ rpc' = "merge_all"
    /\ UNCHANGED <<caller, stats_args, env, INFER_DATE_FLAGS, DMY_PREFERENCE,
                   inits, merged, result>>
    /\ UNCHANGED <<stat_vars, render_vars>>

\* the workers that hold a thread of the pool
Running == {i \in DOMAIN workers : workers[i].at = "computing"}

\* a thread of the pool takes the job of chunk i: the index is opened and
\* the reader is placed at the first row of the chunk
WorkerStart(i) ==
    /\ rpc = "merge_all"
    /\ workers[i].at = "queued"
    /\ Cardinality(Running) < njobs(stats_args.flag_jobs, env.cpus)
    /\ workers' = [workers EXCEPT ![i].at = "computing"]
    /\ UNCHANGED <<caller, stats_args, env, INFER_DATE_FLAGS, DMY_PREFERENCE,
                   inits, mode, merged, result, rpc>>
    /\ UNCHANGED <<stat_vars, render_vars>>

\* the worker that stores the day/month preference at every row
WorkerRowStoresPreference(i) ==
    /\ rpc = "merge_all"
    /\ workers[i].at = "computing"
    /\ workers[i].row < Cardinality(ChunkRows(i))
    /\ workers' = [workers EXCEPT
                     ![i].row = @ + 1,
                     ![i].seen = @ \cup {<<INFER_DATE_FLAGS, DMY_PREFERENCE>>}]
    /\ DMY_PREFERENCE' = ~DMY_PREFERENCE
    /\ UNCHANGED <<caller, stats_args, env, INFER_DATE_FLAGS,
                   inits, mode, merged, result, rpc>>
    /\ UNCHANGED <<stat_vars, render_vars>>

\* the worker's compute reads one row of its chunk: every field is added to
\* its bundle under INFER_DATE_FLAGS and DMY_PREFERENCE as they are read then
WorkerRow(i) ==
    /\ rpc = "merge_all"
    /\ workers[i].at = "computing"
    /\ workers[i].row < Cardinality(ChunkRows(i))
    /\ workers' = [workers EXCEPT
                     ![i].row = @ + 1,
                     ![i].seen = @ \cup {<<INFER_DATE_FLAGS, DMY_PREFERENCE>>}]
    /\ UNCHANGED <<caller, stats_args, env, INFER_DATE_FLAGS, DMY_PREFERENCE,
                   inits, mode, merged, result, rpc>>
    /\ UNCHANGED <<stat_vars, render_vars>>

\* the worker's seek or read returns an error: unwrap_unchecked on an Err is
\* undefined, the worker's thread dies with its sender dropped or the
\* process is brought down
WorkerFails(i) ==
    /\ rpc = "merge_all"
    /\ workers[i].at = "computing"
    /\ workers[i].row < Cardinality(ChunkRows(i))
    /\ \E outcome \in {"dead", "crashed"} :
         IF outcome = "dead"
         THEN workers' = [workers EXCEPT ![i].at = "dead"] /\ rpc' = rpc
         ELSE workers' = workers /\ rpc' = "crashed"
    /\ UNCHANGED <<caller, stats_args, env, INFER_DATE_FLAGS, DMY_PREFERENCE,
                   inits, mode, merged, result>>
    /\ UNCHANGED <<stat_vars, render_vars>>

\* send.send(args.compute(..)) meets merge_all's recv (a channel of capacity 0)
WorkerSend(i) ==
    /\ rpc = "merge_all"
    /\ workers[i].at = "computing"
    /\ workers[i].row = Cardinality(ChunkRows(i))
    /\ workers' = [workers EXCEPT ![i].at = "sent"]
    /\ merged' = merged \cup {i}
    /\ UNCHANGED <<caller, stats_args, env, INFER_DATE_FLAGS, DMY_PREFERENCE,
                   inits, mode, result, rpc>>
    /\ UNCHANGED <<stat_vars, render_vars>>

\* merge_all ending as soon as no worker holds a thread, queued jobs or not
MergeAllEndWhenPoolIdle ==
    /\ rpc = "merge_all"
    /\ \A i \in DOMAIN workers : workers[i].at # "computing"
    /\ result' = Some(UNION {ChunkRows(i) : i \in merged})
    /\ rpc' = "to_records"
    /\ UNCHANGED <<caller, stats_args, env, INFER_DATE_FLAGS, DMY_PREFERENCE,
                   inits, mode, workers, merged>>
    /\ UNCHANGED <<stat_vars, render_vars>>

\* recv.iter() ends when every sender is dropped; parallel_stats returns
\* Ok of what merge_all folded, or of the default when it folded nothing
MergeAllEnd ==
    /\ rpc = "merge_all"
    /\ \A i \in DOMAIN workers : workers[i].at \in {"sent", "dead"}
    /\ result' = Some(UNION {ChunkRows(i) : i \in merged})
    /\ rpc' = "to_records"
    /\ UNCHANGED <<caller, stats_args, env, INFER_DATE_FLAGS, DMY_PREFERENCE,
                   inits, mode, workers, merged>>
    /\ UNCHANGED <<stat_vars, render_vars>>

\* the caller renders the bundles: stats_to_records, stat_headers, the writer
Finish ==
    /\ rpc = "to_records"
    /\ rpc' = "done"
    /\ UNCHANGED <<caller, stats_args, env, INFER_DATE_FLAGS, DMY_PREFERENCE,
                   inits, mode, workers, merged, result>>
    /\ UNCHANGED <<stat_vars, render_vars>>

NextRun ==
    \/ Dispatch
    \/ SequentialStats
    \/ ParallelStats
    \/ Spawn
    \/ \E i \in DOMAIN workers : WorkerStart(i)
    \/ \E i \in DOMAIN workers : WorkerRow(i)
    \/ \E i \in DOMAIN workers : WorkerFails(i)
    \/ \E i \in DOMAIN workers : WorkerSend(i)
    \/ MergeAllEnd
    \/ Finish

SpecRun == InitRun /\ [][NextRun]_vars

\* the runs in which every worker completes: no seek or read fails
NextComplete ==
    \/ Dispatch
    \/ SequentialStats
    \/ ParallelStats
    \/ Spawn
    \/ \E i \in DOMAIN workers : WorkerStart(i)
    \/ \E i \in DOMAIN workers : WorkerRow(i)
    \/ \E i \in DOMAIN workers : WorkerSend(i)
    \/ MergeAllEnd
    \/ Finish

\* the pool's threads and the orchestrating thread are scheduled: a run that
\* can take a step eventually takes one
SpecComplete == InitRun /\ [][NextComplete]_vars /\ WF_vars(NextComplete)

----------------------------------------------------------------------------
(* The whitelist runs: the same callers, every whitelist and column name   *)
(* of the model, an input without an index.                                *)

\* the whitelists of the model
Whitelists ==
    {all, <<"A", "L", "L">>, <<"a", "L", "l">>, <<" ", "a", "l", "l">>,
     <<"n", "o", "n", "e">>, <<"N", "o", "n", "e">>,
     <<"d">>, <<"D">>, <<"x", ",", " ", "D", " ">>, <<"d", "a", ",", "n", "e">>,
     <<"a", "l">>, <<"e", ",">>, <<>>}

\* the column names of the model
ColumnNames ==
    {<<"d">>, <<"D", "a">>, <<"x">>, <<"n", "o", "n", "e">>,
     <<"x", "N", "O", "N", "E">>, <<"a", "l", "l">>, <<"o", "n", "e">>}

DatesCommandLines ==
    {[flag_infer_dates |-> i, flag_prefer_dmy |-> FALSE,
      flag_dates_whitelist |-> w, flag_jobs |-> None] :
        i \in BOOLEAN, w \in Whitelists}

DatesEnvs ==
    {[indexed |-> FALSE, count |-> MaxCount, headers |-> <<h1, h2>>, cpus |-> 1,
      QSV_PREFER_DMY |-> FALSE] :
        h1 \in ColumnNames, h2 \in ColumnNames}

InitDates ==
    /\ StatIdle
    /\ caller \in {"stats", "schema", "tojsonl"}
    /\ env \in DatesEnvs
    /\ stats_args \in {StatsArgsOf(caller, a, env.cpus) : a \in DatesCommandLines}
    /\ RunStart

NextDates ==
    \/ Dispatch
    \/ SequentialStats
    \/ Finish

SpecDates == InitDates /\ [][NextDates]_vars

----------------------------------------------------------------------------
(* Args::stats_to_records: one job and one channel of capacity 0 per       *)
(* column, a pool of njobs threads that takes the jobs in the order they   *)
(* were queued, and the results received in column order.                  *)

MaxCols == 3

\* the bundles of the columns: a column of one row, of every type but dates
ColumnBundles ==
    {StatsAdd(StatsNew(new_stats(args)), sample, FALSE) :
        sample \in {<<>>, <<"1">>, <<"2", ".", "5">>, <<"a">>}}

\* a run with --typesonly (a column's record is its type): records filled
\* with empty records, the pool created, no job queued yet
InitRecords ==
    /\ args = RunArgs(Flags(FALSE, TRUE, FALSE, FALSE, FALSE, FALSE, FALSE, FALSE))
    /\ infer_dates = FALSE
    /\ rows = <<>>
    /\ st = StatsNew(new_stats(args))
    /\ cur = Fresh
    /\ parts = <<>>
    /\ recvd = {}
    /\ acc = None
    /\ pc = "idle"
    /\ caller = "stats"
    /\ stats_args \in {[flag_infer_dates |-> FALSE, flag_prefer_dmy |-> FALSE,
                        flag_dates_whitelist |-> all, flag_jobs |-> j] :
                          j \in {None} \cup {Some(n) : n \in 1..MaxCpus}}
    /\ env \in {[indexed |-> FALSE, count |-> 1, headers |-> <<>>, cpus |-> c,
                 QSV_PREFER_DMY |-> FALSE] : c \in 1..MaxCpus}
    /\ INFER_DATE_FLAGS = None
    /\ DMY_PREFERENCE = FALSE
    /\ inits = 0
    /\ mode = "Sequential"
    /\ workers = <<>>
    /\ merged = {}
    /\ result = None
    /\ rpc = "to_records"
    /\ stats \in UNION {[1..n -> ColumnBundles] : n \in 1..MaxCols}
    /\ results = <<>>
    /\ records = [k \in 1..Len(stats) |-> <<>>]
    /\ received = 0
    /\ field_type_vec = None
    /\ wtr = <<>>

\* the first loop, one column: its channel is created, its receiver pushed
\* and its job queued; pool.execute does not wait for a thread
Execute ==
    /\ rpc = "to_records"
    /\ Len(results) < Len(stats)
    /\ results' = Append(results, [at |-> "queued", record |-> <<>>])
    /\ UNCHANGED <<stats, records, received, field_type_vec, wtr>>
    /\ UNCHANGED <<stat_vars, run_vars>>

\* the jobs that hold a thread of the pool: rendering, or waiting in send
Busy == {k \in DOMAIN results : results[k].at \in {"rendering", "sending"}}

\* a free thread of the pool takes the oldest queued job
JobStart(k) ==
    /\ results[k].at = "queued"
    /\ \A j \in 1..(k - 1) : results[j].at # "queued"
    /\ Cardinality(Busy) < njobs(stats_args.flag_jobs, env.cpus)
    /\ results' = [results EXCEPT ![k].at = "rendering"]
    /\ UNCHANGED <<stats, records, received, field_type_vec, wtr>>
    /\ UNCHANGED <<stat_vars, run_vars>>

\* the job's stat.to_record(round_places) returns; send waits for the recv
JobRender(k) ==
    /\ results[k].at = "rendering"
    /\ results' = [results EXCEPT ![k].at = "sending",
                                  ![k].record = to_record(stats[k], env.count)]
    /\ UNCHANGED <<stats, records, received, field_type_vec, wtr>>
    /\ UNCHANGED <<stat_vars, run_vars>>

\* the second loop receiving whichever result is ready, not the next column's
RecvAny ==
    /\ rpc = "to_records"
    /\ Len(results) = Len(stats)
    /\ received < Len(stats)
    /\ \E k \in DOMAIN results :
         /\ results[k].at = "sending"
         /\ records' = [records EXCEPT ![received + 1] = results[k].record]
         /\ results' = [results EXCEPT ![k].at = "sent"]
    /\ received' = received + 1
    /\ UNCHANGED <<stats, field_type_vec, wtr>>
    /\ UNCHANGED <<stat_vars, run_vars>>

\* the second loop, one column: records[i] = recv.recv() on the column's
\* own channel meets the send of the column's job
Recv ==
    /\ rpc = "to_records"
    /\ Len(results) = Len(stats)
    /\ received < Len(stats)
    /\ results[received + 1].at = "sending"
    /\ records' = [records EXCEPT ![received + 1] = results[received + 1].record]
    /\ results' = [results EXCEPT ![received + 1].at = "sent"]
    /\ received' = received + 1
    /\ UNCHANGED <<stats, field_type_vec, wtr>>
    /\ UNCHANGED <<stat_vars, run_vars>>

\* stats_to_records returns records
Return ==
    /\ rpc = "to_records"
    /\ Len(results) = Len(stats)
    /\ received = Len(stats)
    /\ rpc' = "done"
    /\ UNCHANGED <<caller, stats_args, env, INFER_DATE_FLAGS, DMY_PREFERENCE,
                   inits, mode, workers, merged, result>>
    /\ UNCHANGED <<stat_vars, render_vars>>

NextRecords ==
    \/ Execute
    \/ \E k \in DOMAIN results : JobStart(k)
    \/ \E k \in DOMAIN results : JobRender(k)
    \/ Recv
    \/ Return

\* the pool's threads and the calling thread are scheduled
SpecRecords == InitRecords /\ [][NextRecords]_vars /\ WF_vars(NextRecords)

----------------------------------------------------------------------------
(* tojsonl, one column: schema's infer_schema_from_stats gives the column  *)
(* a type and an enum of its values, tojsonl's run derives the JsonlType   *)
(* and writes every field of the column.  JSON values of the enum are      *)
(* <<"string", s>>, <<"number", n>> and <<"null">>.                        *)

flag_enum_threshold == 3

\* the fields of the column (none of them has outer whitespace, which
\* record.trim() would remove)
JsonlPool ==
    {<<>>, <<"T">>, <<"F">>, <<"f">>, <<"y">>, <<"n">>, <<"1">>, <<"0">>,
     <<"1", "0">>, <<"1", ".", "5">>}

\* first_lower_char
first_lower_char(field_str) ==
    IF field_str = <<>> THEN "_" ELSE LowerChar(field_str[1])

\* get_unique_values: the frequency table of the column without its empty
\* values, its values in ascending order
unique_values(column) == SetToSorted(Distinct(column) \ {<<>>})

\* infer_schema_from_stats: the enum of the column, from the type of its
\* stats record, its unique values and its null count
enum_list(col_type, values, col_null_count) ==
    LET typed ==
          IF col_type = TypeName(TString)
          THEN [k \in 1..Len(values) |-> <<"string", values[k]>>]
          ELSE IF col_type = TypeName(TInteger)
          THEN [k \in 1..Len(values) |-> <<"number", Unwrap(ParseI64(values[k]))>>]
          ELSE <<>>
    IN  IF col_null_count > 0 /\ typed # <<>> THEN Append(typed, <<"null">>)
        ELSE typed

\* infer_schema_from_stats: the first member of the column's type list
type_list(col_type) ==
    CASE col_type = TypeName(TString) -> "string"
      [] col_type = TypeName(TInteger) -> "integer"
      [] col_type = TypeName(TFloat) -> "number"
      [] col_type = TypeName(TNull) -> "null"
      [] OTHER -> "string"

\* the JsonlType with a number of the enum judged by its first digit
field_type_FirstDigit(prelim_type, vals) ==
    LET ch(v) == IF v[1] = "null" THEN "_"
                 ELSE IF v[1] = "string" THEN first_lower_char(v[2])
                 ELSE first_lower_char(Itoa(v[2]))
    IN  IF /\ Len(vals) = 2
           /\ <<ch(vals[1]), ch(vals[2])>> \in
                {<<"t", "f">>, <<"t", "_">>, <<"f", "t">>, <<"_", "t">>,
                 <<"1", "0">>, <<"1", "_">>, <<"0", "1">>, <<"_", "1">>,
                 <<"y", "n">>, <<"y", "_">>, <<"n", "y">>, <<"_", "y">>}
        THEN "Boolean"
        ELSE CASE prelim_type = "string" -> "String"
               [] prelim_type = "integer" -> "Integer"
               [] prelim_type = "number" -> "Number"
               [] prelim_type = "null" -> "Null"

\* run, the loop over properties_map: the JsonlType of a column from its
\* type and its enum (an empty enum is no enum)
field_type(prelim_type, vals) ==
    LET ch(v) == IF v[1] = "null" THEN "_"
                 ELSE IF v[1] = "string" THEN first_lower_char(v[2])
                 ELSE IF v[2] = 1 THEN "1"
                 ELSE IF v[2] = 0 THEN "0"
                 ELSE "*"
    IN  IF /\ Len(vals) = 2
           /\ <<ch(vals[1]), ch(vals[2])>> \in
                {<<"t", "f">>, <<"t", "_">>, <<"f", "t">>, <<"_", "t">>,
                 <<"1", "0">>, <<"1", "_">>, <<"0", "1">>, <<"_", "1">>,
                 <<"y", "n">>, <<"y", "_">>, <<"n", "y">>, <<"_", "y">>}
        THEN "Boolean"
        ELSE CASE prelim_type = "string" -> "String"
               [] prelim_type = "integer" -> "Integer"
               [] prelim_type = "number" -> "Number"
               [] prelim_type = "null" -> "Null"

\* run, the loop over the fields of a record: the JSON text written for a
\* field of a column of the given JsonlType
field_val(jsonl_type, field) ==
    LET null == <<"n", "u", "l", "l">>
        val == CASE jsonl_type = "String" ->
                      IF field = <<>> THEN null
                      ELSE <<"\"">> \o field \o <<"\"">>
                 [] jsonl_type = "Null" -> null
                 [] jsonl_type \in {"Integer", "Number"} -> field
                 [] jsonl_type = "Boolean" ->
                      IF first_lower_char(field) \in {"t", "y", "1"}
                      THEN <<"t", "r", "u", "e">>
                      ELSE <<"f", "a", "l", "s", "e">>
    IN  IF val = <<>> THEN null ELSE val

\* tojsonl starts: the stats Args are those of schema's get_stats_records
\* (cardinality on), the column's name holds no pattern of the whitelist
InitJsonl ==
    /\ args = RunArgs(Flags(FALSE, FALSE, FALSE, TRUE, FALSE, FALSE, FALSE, FALSE))
    /\ infer_dates = FALSE
    /\ rows = <<>>
    /\ st = StatsNew(new_stats(args))
    /\ cur = Fresh
    /\ parts = <<>>
    /\ recvd = {}
    /\ acc = None
    /\ pc = "feed"
    /\ caller = "tojsonl"
    /\ stats_args = [flag_infer_dates |-> TRUE, flag_prefer_dmy |-> FALSE,
                     flag_dates_whitelist |-> <<"n", "o", "n", "e">>,
                     flag_jobs |-> Some(1)]
    /\ env = [indexed |-> FALSE, count |-> 0, headers |-> <<>>, cpus |-> 1,
              QSV_PREFER_DMY |-> FALSE]
    /\ INFER_DATE_FLAGS = None
    /\ DMY_PREFERENCE = FALSE
    /\ inits = 0
    /\ mode = "NotStarted"
    /\ workers = <<>>
    /\ merged = {}
    /\ result = None
    /\ rpc = "idle"
    /\ RenderIdle

\* the stats pass reads one more row of the input
JsonlAdd(sample) ==
    /\ pc = "feed"
    /\ Len(rows) < MaxRows
    /\ rows' = Append(rows, sample)
    /\ st' = StatsAdd(st, sample, infer_dates)
    /\ UNCHANGED <<args, infer_dates, cur, parts, recvd, acc, pc>>
    /\ UNCHANGED <<run_vars, render_vars>>

\* infer_schema_from_stats and the loop over properties_map: type, null
\* count and cardinality are read back from the column's stats record, the
\* unique values are fetched when the cardinality is within the threshold
InferTypes ==
    /\ pc = "feed"
    /\ LET col_type == to_record(st, Len(rows))[1]
           col_null_count == Unwrap(ParseI64(NullPieces(st, Len(rows))[1]))
           col_cardinality == Unwrap(ParseI64(ModePieces(st)[1]))
           values == IF col_cardinality <= flag_enum_threshold
                     THEN unique_values(rows) ELSE <<>>
       IN  field_type_vec' =
             Some(field_type(type_list(col_type),
                             enum_list(col_type, values, col_null_count)))
    /\ pc' = "write"
    /\ UNCHANGED <<args, infer_dates, rows, st, cur, parts, recvd, acc>>
    /\ UNCHANGED <<run_vars, stats, results, records, received, wtr>>

\* the loop over the records: the next row's field is written
WriteRecord ==
    /\ pc = "write"
    /\ Len(wtr) < Len(rows)
    /\ wtr' = Append(wtr, field_val(Unwrap(field_type_vec), rows[Len(wtr) + 1]))
    /\ UNCHANGED <<stat_vars, run_vars>>
    /\ UNCHANGED <<stats, results, records, received, field_type_vec>>

NextJsonl ==
    \/ \E sample \in JsonlPool : JsonlAdd(sample)
    \/ InferTypes
    \/ WriteRecord

SpecJsonl == InitJsonl /\ [][NextJsonl]_vars

----------------------------------------------------------------------------
(* Properties *)

which == new_stats(args)

NEmpty(ss) == Cardinality({i \in 1..Len(ss) : ss[i] = <<>>})

\* the exact (unbounded) sum of the integer samples among ss
RECURSIVE ExactSum(_)
ExactSum(ss) ==
    IF ss = <<>> THEN 0
    ELSE ExactSum(SubSeq(ss, 1, Len(ss) - 1))
         + (IF IsSome(ParseI64(ss[Len(ss)])) THEN Unwrap(ParseI64(ss[Len(ss)])) ELSE 0)

\* the exact total, in tenths, of the numeric samples among ss
RECURSIVE ExactTotal(_)
ExactTotal(ss) ==
    IF ss = <<>> THEN 0
    ELSE ExactTotal(SubSeq(ss, 1, Len(ss) - 1))
         + (IF IsSome(ParseF64(ss[Len(ss)])) THEN Unwrap(ParseF64(ss[Len(ss)])) ELSE 0)

LastRow == rows[Len(rows)]

\* what a sample is on its own: an integer (no leading zero), else a float
LooksInteger(s) ==
    IsSome(ParseI64(s)) /\ ~(s[1] = "0" /\ Unwrap(ParseI64(s)) # 0)
LooksFloat(s) == ~IsSome(ParseI64(s)) /\ IsSome(ParseF64(s))
LooksDate(s) == IsSome(parse_with_preference(s))

\* C1: once the bundle's type is String it is String after every later add,
\* whatever the sample (empty, or integer, float or date on its own) and
\* whether or not dates are inferred.
C1_StringIsFinal == [][st.typ = TString => st'.typ = TString]_vars

\* a String column that was then fed an empty sample, or one that is an
\* integer, a float or a date on its own
C1_Witness ==
    /\ Len(rows) = 3
    /\ rows[1] = <<"a">>
    /\ rows[2] = <<>>
    /\ LooksInteger(LastRow) \/ LooksFloat(LastRow) \/ (infer_dates /\ LooksDate(LastRow))
    /\ st.typ = TString

\* C2 (as claimed): after a chunked run of two or more chunks, merged in any
\* arrival order, the record of the merged bundle is the record of the
\* bundle fed all the rows.
C2_ChunkedEqualsSequential ==
    (pc = "done" /\ Len(parts) >= 2)
        => to_record(Unwrap(acc), Len(rows)) = to_record(st, Len(rows))

\* the MAD data of the results received so far, end to end
RECURSIVE MadOfReceived(_)
MadOfReceived(k) ==
    IF k = 0 THEN <<>>
    ELSE MadOfReceived(k - 1)
         \o (IF k \in recvd /\ IsSome(parts[k].mad) THEN Unwrap(parts[k].mad) ELSE <<>>)

\* C3 (as claimed): with MAD enabled the merged bundle's MAD data holds every
\* sample of the MAD data of the bundles merged into it, and after the
\* chunked run the MAD reported is the MAD of the bundle fed all the rows.
C3_MadMerged ==
    (which.mad /\ ~which.typesonly /\ IsSome(acc))
        => /\ Sorted(Unwrap(Unwrap(acc).mad)) = Sorted(MadOfReceived(Len(parts)))
           /\ pc = "done" => MadPieces(Unwrap(acc)) = MadPieces(st)

\* every running sum of the integer samples lies strictly inside the i64 range
RunningSumsInside(ss) ==
    \A k \in 1..Len(ss) :
        LET r == ExactSum(SubSeq(ss, 1, k)) IN I64_MIN < r /\ r < I64_MAX

\* C4: for an Integer column (integers and possibly empty samples) whose
\* running sum never reaches the i64 maximum or minimum, the sum field is
\* the exact arithmetic sum of the samples.
C4_SumExact ==
    (~which.typesonly /\ st.typ = TInteger /\ RunningSumsInside(rows))
        => SumPieces(st) = <<Itoa(ExactSum(rows))>>

C4_Witness ==
    /\ ~which.typesonly /\ st.typ = TInteger /\ RunningSumsInside(rows)
    /\ rows = << <<"1">>, <<>>, <<"1">> >>
    /\ SumPieces(st) = << <<"2">> >>

\* C5 (as claimed): for an Integer column whose exact sum exceeds the i64
\* maximum, in whatever order the samples came, the sum field is OVERFLOW.
C5_OverflowShown ==
    (~which.typesonly /\ st.typ = TInteger /\ ExactSum(rows) > I64_MAX)
        => SumPieces(st) = <<OVERFLOW>>

\* the rows of the chunk being read
CurRows == SubSeq(rows, Len(rows) - cur.n + 1, Len(rows))

RECURSIVE NullcountOfReceived(_)
NullcountOfReceived(k) ==
    IF k = 0 THEN 0
    ELSE NullcountOfReceived(k - 1) + (IF k \in recvd THEN parts[k].nullcount ELSE 0)

LeadingZeroNonZero(s) ==
    IsSome(ParseI64(s)) /\ s[1] = "0" /\ Unwrap(ParseI64(s)) # 0

\* C7: while the type is Null, Integer or Float, a sample that parses as a
\* non-zero integer and begins with 0 makes the column String, and it stays
\* String; the sample 0 is classified Integer.
C7_LeadingZero ==
    [][/\ (rows' # rows /\ st.typ \in {TNull, TInteger, TFloat})
            => LET s == rows'[Len(rows')]
               IN  /\ LeadingZeroNonZero(s) => st'.typ = TString
                   /\ s = <<"0">> =>
                        /\ from_sample(infer_dates, s, st.typ)[1] = TInteger
                        /\ st'.typ = FieldTypeMerge(st.typ, TInteger)
       /\ (st.typ = TString /\ \E i \in 1..Len(rows) : LeadingZeroNonZero(rows[i]))
            => st'.typ = TString]_vars

C7_Witness ==
    /\ rows = << <<"0">>, <<"2", ".", "5">>, <<"0", "7">> >>
    /\ st.typ = TString

\* a column that mixes integer and float samples and nothing else
Mixed(ss) ==
    /\ \A i \in 1..Len(ss) : ss[i] # <<>> /\ (LooksInteger(ss[i]) \/ LooksFloat(ss[i]))
    /\ \E i \in 1..Len(ss) : LooksInteger(ss[i])
    /\ \E i \in 1..Len(ss) : LooksFloat(ss[i])

\* the exact sum of the integers that precede the first float never leaves
\* the i64 range
IntegerPrefixInRange(ss) ==
    \A k \in 1..Len(ss) :
        (\A j \in 1..k : LooksInteger(ss[j]))
            => LET r == ExactSum(SubSeq(ss, 1, k)) IN I64_MIN <= r /\ r <= I64_MAX

AllFlags == {Flags(e, t, mo, c, me, ma, q, n) :
                e \in BOOLEAN, t \in BOOLEAN, mo \in BOOLEAN, c \in BOOLEAN,
                me \in BOOLEAN, ma \in BOOLEAN, q \in BOOLEAN, n \in BOOLEAN}

\* C9: in types-only mode add changes nothing of the bundle but its type, the
\* record is the type name alone and the header is field, type; and this is
\* so for every setting of the other flags, run's clearing or not.
C9_TypesOnly ==
    /\ which.typesonly
         => /\ [st EXCEPT !.typ = TNull] = StatsNew(which)
            /\ to_record(st, Len(rows)) = <<TypeName(st.typ)>>
            /\ stat_headers(args) = <<"field", "type">>
    /\ rows = <<>>
         => \A a \in AllFlags : a.typesonly =>
              /\ stat_headers(a) = <<"field", "type">>
              /\ \A t \in FieldTypes : \A s \in Pool(infer_dates) :
                   LET b == [StatsNew(new_stats(a)) EXCEPT !.typ = t]
                       c == StatsAdd(b, s, infer_dates)
                   IN  /\ [c EXCEPT !.typ = t] = b
                       /\ to_record(c, 1) = <<TypeName(c.typ)>>

C9_Witness ==
    /\ which.typesonly
    /\ rows = << <<"1">>, <<>>, <<"2", ".", "5">> >>
    /\ st.typ = TFloat
    /\ to_record(st, 3) = << <<"F", "l", "o", "a", "t">> >>

AllUnique(ss) == \A i, j \in 1..Len(ss) : ss[i] = ss[j] => i = j

\* the last three fields of a record
LastThree(rec) == SubSeq(rec, Len(rec) - 2, Len(rec))

\* C10: with mode enabled, a column whose values all occur once reports
\* antimode *ALL, antimode_count 0, antimode_occurrences 1; a column in
\* which a value repeats never reports *ALL.
C10_AntimodeAll ==
    (which.mode /\ ~which.typesonly)
        => LET rec == to_record(st, Len(rows))
           IN  IF AllUnique(rows)
               THEN LastThree(rec) = <<ALL, <<"0">>, <<"1">>>>
               ELSE LastThree(rec)[1] # ALL

C10_Witness ==
    /\ which.mode /\ ~which.typesonly
    /\ Len(rows) = 3
    /\ AllUnique(rows)
    /\ LastThree(to_record(st, Len(rows))) = <<ALL, <<"0">>, <<"1">>>>

\* the merge table of the six types, as a function of the ordered pair
MergeTable(a, b) ==
    IF a = TNull THEN b
    ELSE IF b = TNull THEN a
    ELSE IF a = TString \/ b = TString THEN TString
    ELSE IF a = b THEN a
    ELSE IF {a, b} = {TInteger, TFloat} THEN TFloat
    ELSE IF {a, b} = {TDate, TDateTime} THEN TDateTime
    ELSE TString

\* C11: FieldType::merge is the table on all 36 ordered pairs (Null gives
\* the other type, String absorbs, Integer with Float is Float, Date with
\* DateTime is DateTime, equal types stay, numeric with temporal is String),
\* and the type of a merged bundle is the table's entry for the two types.
C11_MergeTable ==
    /\ \A a \in FieldTypes : \A b \in FieldTypes :
         FieldTypeMerge(a, b) = MergeTable(a, b)
    /\ pc = "done" => Unwrap(acc).typ = MergeTable(st.typ, cur.b.typ)

C11_Witness ==
    /\ pc = "done"
    /\ st.typ = TInteger
    /\ cur.b.typ = TDateTime
    /\ Unwrap(acc).typ = TString

\* C12: a merge of two bundles whose selections differ in any flag panics
\* and leaves no merged bundle; a merge of two bundles with the same
\* selection returns the merged bundle.
C12_MergeAsserts ==
    /\ [](pc = "panic" => st.which # cur.b.which /\ acc = None)
    /\ [](pc = "done" => st.which = cur.b.which /\ IsSome(acc))
    /\ [][(pc \in {"left", "right"} /\ pc' \notin {"left", "right"})
            => pc' = (IF st.which = cur.b.which THEN "done" ELSE "panic")]_vars

C12_Witness ==
    /\ pc = "panic"
    /\ st.which.include_nulls # cur.b.which.include_nulls
    /\ [st.which EXCEPT !.include_nulls = FALSE]
         = [cur.b.which EXCEPT !.include_nulls = FALSE]
    /\ Len(rows) = 1 /\ cur.n = 1
    /\ st.typ = TInteger /\ cur.b.typ = TString

\* the run has returned its bundles
Returned == rpc \in {"to_records", "done"}

\* the conditions under which run hands the input to the chunk workers
SpawnConditions ==
    /\ env.indexed
    /\ stats_args.flag_jobs # Some(1)
    /\ env.count > 0

\* C13: the stats run has chunk workers only with an index, a job count
\* other than 1 and a positive indexed row count; otherwise it computes
\* sequentially over all rows with no worker, and with an index of zero rows
\* the date-inference flags are initialised exactly once.
C13_SpawnOnlyWhen ==
    /\ caller = "stats" =>
         /\ (mode = "Parallel" \/ workers # <<>>) => SpawnConditions
         /\ (Returned /\ ~SpawnConditions) =>
              /\ mode = "Sequential"
              /\ workers = <<>>
              /\ result = Some(1..env.count)
    /\ (Returned /\ env.indexed /\ env.count = 0) =>
         /\ inits = 1
         /\ IsSome(INFER_DATE_FLAGS)
         /\ mode = "Sequential"

C13_Witness ==
    /\ caller = "stats"
    /\ rpc = "done"
    /\ env.indexed /\ env.count = 0
    /\ stats_args.flag_jobs = Some(2)
    /\ mode = "Sequential"
    /\ inits = 1

\* C14: with an index, a run of at most one chunk is computed in the
\* Sequential mode; the Parallel mode is taken with two chunks or more.
C14_OneChunkIsSequential ==
    (env.indexed /\ mode = "Parallel") => Cardinality(Chunks) >= 2

\* C15: a parallel run in which a chunk worker failed returns no bundles:
\* what parallel_stats returns was merged from all the chunks.
C15_NoPartialResult ==
    (mode = "Parallel" /\ Returned) =>
        /\ \A i \in DOMAIN workers : workers[i].at = "sent"
        /\ merged = DOMAIN workers
        /\ result = Some(1..env.count)

\* the trimmed, lower-cased patterns of a whitelist
Patterns(w) ==
    LET items == split(to_lowercase(w))
    IN  {trim(items[k]) : k \in DOMAIN items}

\* column i attempts date inference
Attempted(i) == Unwrap(INFER_DATE_FLAGS)[i]

\* C18: once the flags are set, a column attempts date inference exactly
\* when date inference is enabled and the whitelist is all in any letter
\* case or the lower-cased column name contains one of the trimmed,
\* lower-cased patterns; a column that attempts it classifies a date sample
\* as a Date, a column that does not classifies it as a String.
C18_Whitelist ==
    IsSome(INFER_DATE_FLAGS) =>
        \A i \in 1..Len(env.headers) :
            /\ Attempted(i) <=>
                 /\ stats_args.flag_infer_dates
                 /\ \/ to_lowercase(stats_args.flag_dates_whitelist) = all
                    \/ \E pat \in Patterns(stats_args.flag_dates_whitelist) :
                         contains(to_lowercase(env.headers[i]), pat)
            /\ from_sample(Attempted(i), <<"1", "/", "2">>, TNull)[1]
                 = IF Attempted(i) THEN TDate ELSE TString

C18_Witness ==
    /\ rpc = "done"
    /\ stats_args.flag_infer_dates
    /\ stats_args.flag_dates_whitelist = <<"x", ",", " ", "D", " ">>
    /\ env.headers = << <<"D", "a">>, <<"o", "n", "e">> >>
    /\ INFER_DATE_FLAGS = Some(<<TRUE, FALSE>>)

\* C19: with the whitelist none no column attempts date inference, whatever
\* its name.
C19_WhitelistNone ==
    (IsSome(INFER_DATE_FLAGS)
       /\ stats_args.flag_dates_whitelist = <<"n", "o", "n", "e">>)
        => \A i \in 1..Len(env.headers) : ~Attempted(i)

\* the statics as a worker reads them
Statics == <<INFER_DATE_FLAGS, DMY_PREFERENCE>>

\* a step that writes the shared date-inference state
WritesStatics ==
    \/ INFER_DATE_FLAGS' # INFER_DATE_FLAGS
    \/ DMY_PREFERENCE' # DMY_PREFERENCE
    \/ inits' # inits

\* C20: the shared date-inference state is written by one call of
\* init_date_inference, made while no worker exists; no later step writes
\* it, and what any worker read at any row is the state as it still is.
C20_SharedStateWrittenOnce ==
    /\ [](inits <= 1)
    /\ [](workers # <<>> => inits = 1 /\ IsSome(INFER_DATE_FLAGS))
    /\ [](\A i \in DOMAIN workers : workers[i].seen \subseteq {Statics})
    /\ [][WritesStatics => (inits = 0 /\ workers = <<>> /\ mode = "NotStarted")]_vars

C20_Witness ==
    /\ rpc = "done"
    /\ mode = "Parallel"
    /\ Cardinality(DOMAIN workers) = 3
    /\ DMY_PREFERENCE
    /\ \A i \in DOMAIN workers : workers[i].seen = {Statics}

\* C16: for every combination of the flags and every bundle content, the
\* empty column included, to_record returns one field less than stat_headers
\* returns headers, and field k is the statistic that header k+1 names.
C16_RecordMatchesHeaders ==
    LET rec == to_record(st, Len(rows))
        hdr == stat_headers(args)
    IN  /\ Len(rec) = Len(hdr) - 1
        /\ record_names(st, Len(rows)) = Tail(hdr)

C16_Witness ==
    /\ args.everything /\ ~args.typesonly /\ args.median
    /\ rows = << <<"1">>, <<>>, <<"2", ".", "5">> >>
    /\ Len(to_record(st, 3)) = 29
    /\ Len(stat_headers(args)) = 30

\* C17: a bundle never holds both a median and a quartiles accumulator;
\* when quartiles are requested, directly or through everything, the median
\* accumulator is absent, no median header and no median field is emitted,
\* and unless only types are inferred the q2_median header is.
C17_MedianOrQuartiles ==
    LET hdr == stat_headers(args)
        names == record_names(st, Len(rows))
    IN  /\ ~(IsSome(st.median) /\ IsSome(st.quartiles))
        /\ (args.quartiles \/ args.everything) =>
             /\ st.median = None
             /\ IsSome(st.quartiles)
             /\ \A k \in DOMAIN hdr : hdr[k] # "median"
             /\ \A k \in DOMAIN names : names[k] # "median"
             /\ MedianPieces(st) = <<>>
             /\ ~args.typesonly => \E k \in DOMAIN hdr : hdr[k] = "q2_median"

C17_Witness ==
    /\ args.quartiles /\ args.median /\ ~args.everything /\ ~args.typesonly
    /\ rows = << <<"1">>, <<"2", ".", "5">>, <<"1">> >>
    /\ st.median = None
    /\ IsSome(st.quartiles)
    /\ Len(stat_headers(args)) = 22

\* C22 (as claimed): after a chunked run, whatever the rows and wherever the
\* chunks were cut, the type of the merged bundle is the type of the bundle
\* fed all the rows in order, also with dates inferred and a numeric
\* timestamp among the samples.
C22_TypeOfPartsIsTypeOfWhole ==
    pc = "done" => Unwrap(acc).typ = st.typ

\* the same statement for the runs without date inference
C22_WithoutDates ==
    (pc = "done" /\ ~infer_dates) => Unwrap(acc).typ = st.typ

\* "a is at least as specific as b": Null below every type, Integer below
\* Float, Date below DateTime, every type below String
AtLeastAsSpecific(a, b) ==
    \/ a = b
    \/ a = TNull
    \/ b = TString
    \/ a = TInteger /\ b = TFloat
    \/ a = TDate /\ b = TDateTime

\* C23: FieldType::merge is commutative, associative and idempotent, Null is
\* its identity and String absorbs; its result is never more specific than
\* either input (Float never returns to Integer, DateTime never to Date),
\* and so is the type of a merged bundle against the two bundles merged.
C23_MergeIsSemilattice ==
    /\ \A a \in FieldTypes : \A b \in FieldTypes :
         /\ FieldTypeMerge(a, b) = FieldTypeMerge(b, a)
         /\ AtLeastAsSpecific(a, FieldTypeMerge(a, b))
         /\ AtLeastAsSpecific(b, FieldTypeMerge(a, b))
         /\ \A c \in FieldTypes :
              FieldTypeMerge(FieldTypeMerge(a, b), c)
                  = FieldTypeMerge(a, FieldTypeMerge(b, c))
    /\ \A a \in FieldTypes :
         /\ FieldTypeMerge(a, a) = a
         /\ FieldTypeMerge(TNull, a) = a /\ FieldTypeMerge(a, TNull) = a
         /\ FieldTypeMerge(TString, a) = TString
         /\ FieldTypeMerge(a, TString) = TString
    /\ [](pc = "done" =>
            /\ AtLeastAsSpecific(st.typ, Unwrap(acc).typ)
            /\ AtLeastAsSpecific(cur.b.typ, Unwrap(acc).typ)
            /\ (TFloat \in {st.typ, cur.b.typ} => Unwrap(acc).typ # TInteger)
            /\ (TDateTime \in {st.typ, cur.b.typ} => Unwrap(acc).typ # TDate))

\* a Float bundle merged with an Integer one, and the other way round
C23_Witness ==
    /\ pc = "done"
    /\ st.typ = TFloat
    /\ cur.b.typ = TInteger
    /\ Unwrap(acc).typ = TFloat

\* C27: for a column whose type is not String (so never was), the population
\* of the mean/variance accumulator is every sample when nulls are included
\* and the non-empty samples when they are not; and the add of an empty
\* sample leaves the sum, the median, MAD and quartile data as they were.
C27_NullsInPopulation ==
    /\ [](( ~which.typesonly /\ st.typ # TString )
            => Unwrap(st.online).size
                 = IF which.include_nulls THEN Len(rows)
                   ELSE Len(rows) - NEmpty(rows))
    /\ [][(rows' = Append(rows, <<>>))
            => /\ st'.sum = st.sum
               /\ st'.median = st.median
               /\ st'.mad = st.mad
               /\ st'.quartiles = st.quartiles]_vars

\* a Float column with an empty sample among its three, nulls included,
\* the median data holding the two numbers
C27_Witness ==
    /\ which.include_nulls /\ which.mad
    /\ rows = << <<"1">>, <<>>, <<"2", ".", "5">> >>
    /\ st.typ = TFloat
    /\ Unwrap(st.online).size = 3
    /\ Len(Unwrap(st.mad)) = 2

\* C28: a sample is classified Date or DateTime (and given a timestamp) only
\* with date inference enabled and a running type of Null, Date or DateTime;
\* an Integer or Float column never becomes Date or DateTime, and a sample
\* that is no number, added to it, makes it String even if it is a date.
C28_DatesOnlyFromNullOrDate ==
    /\ \A en \in BOOLEAN : \A t \in FieldTypes :
         \A s \in Pool(TRUE) \cup Pool(FALSE) :
           ~(en /\ t \in {TNull, TDate, TDateTime})
              => /\ from_sample(en, s, t)[1] \notin {TDate, TDateTime}
                 /\ from_sample(en, s, t)[2] = None
                 /\ (s # <<>> /\ ~IsSome(ParseI64(s)) /\ ~IsSome(ParseF64(s)))
                       => from_sample(en, s, t)[1] = TString
    /\ [][st.typ \in {TInteger, TFloat}
            => /\ st'.typ \notin {TDate, TDateTime}
               /\ LET s == rows'[Len(rows')]
                  IN  (s # <<>> /\ ~IsSome(ParseI64(s)) /\ ~IsSome(ParseF64(s)))
                         => st'.typ = TString]_vars

\* an Integer column, dates inferred, fed a calendar date
C28_Witness ==
    /\ infer_dates
    /\ rows = << <<"1">>, <<"1", "/", "2">> >>
    /\ LooksDate(LastRow)
    /\ st.typ = TString

\* the non-empty raw samples read so far, and the byte lengths of all of them
RawSamples == {rows[i] : i \in DOMAIN rows} \ {<<>>}
RawLengths == {Len(rows[i]) : i \in DOMAIN rows}

\* min, max, min_length and max_length of the record are those of the raw
\* samples
MinMaxOfRaw ==
    LET p == MinMaxPieces(st)
    IN  /\ p[1] \in RawSamples /\ \A s \in RawSamples : ~BytesLess(s, p[1])
        /\ p[2] \in RawSamples /\ \A s \in RawSamples : ~BytesLess(p[2], s)
        /\ \E n \in RawLengths : p[4] = Itoa(n) /\ \A k \in RawLengths : n <= k
        /\ \E n \in RawLengths : p[5] = Itoa(n) /\ \A k \in RawLengths : k <= n

\* C29 (as claimed): for a column whose type is String, min and max are the
\* bytewise least and greatest non-empty raw samples and min_length and
\* max_length the least and greatest byte lengths of the raw samples, also
\* when dates are inferred and an earlier sample parsed as a date.
C29_StringMinMaxAreRaw ==
    (~which.typesonly /\ st.typ = TString) => MinMaxOfRaw

\* the same statement for the columns read without date inference
C29_WithoutDates ==
    (~which.typesonly /\ st.typ = TString /\ ~infer_dates) => MinMaxOfRaw

\* every running sum of the integer samples fits an i64, the extremes included
RunningSumsFit(ss) ==
    \A k \in 1..Len(ss) :
        LET r == ExactSum(SubSeq(ss, 1, k)) IN I64_MIN <= r /\ r <= I64_MAX

\* C30 (as claimed): for an Integer column whose running sums all fit an
\* i64 (a single sample equal to the i64 maximum or minimum included), the
\* sum field is the number, never OVERFLOW or UNDERFLOW.
C30_MarkersOnlyOnOverflow ==
    (~which.typesonly /\ st.typ = TInteger /\ RunningSumsFit(rows))
        => /\ SumPieces(st) = <<Itoa(ExactSum(rows))>>
           /\ SumPieces(st) \notin {<<OVERFLOW>>, <<UNDERFLOW>>}

\* C24: in a parallel run (an index of N > 0 rows, any job count) there is
\* one worker per chunk, the chunks are pairwise disjoint and together they
\* are the rows 1..N, also when N is no multiple of the job count or less
\* than it.
C24_ChunksPartitionRows ==
    mode = "Parallel" =>
        /\ env.count > 0
        /\ DOMAIN workers = Chunks
        /\ \A i \in Chunks : \A j \in Chunks :
             i # j => ChunkRows(i) \cap ChunkRows(j) = {}
        /\ UNION {ChunkRows(i) : i \in Chunks} = 1..env.count

\* five rows and two jobs: chunks of two rows and a last one cut at row
\* five, every chunk computed and merged
C24_Witness ==
    /\ mode = "Parallel"
    /\ env.count = 5
    /\ njobs(stats_args.flag_jobs, env.cpus) = 2
    /\ Chunks = 0..2
    /\ ChunkRows(2) = {5}
    /\ rpc = "done"
    /\ result = Some(1..5)

\* C25: a parallel run in which every worker completes ends, whatever the
\* number of chunks and of threads (more chunks than threads included);
\* every result received is that of a chunk not received before, sent by a
\* worker that then is done for good; and when merge_all has returned, one
\* result of every chunk has been merged and the result covers every row.
C25_ParallelRunEnds ==
    /\ (mode = "Parallel") ~> (rpc = "done")
    /\ []((mode = "Parallel" /\ rpc \in {"to_records", "done"})
            => /\ merged = Chunks
               /\ \A i \in Chunks : workers[i].at = "sent"
               /\ result = Some(1..env.count))
    /\ [][(mode = "Parallel" /\ mode' = "Parallel")
            => /\ \A i \in DOMAIN workers :
                    workers[i].at = "sent" => workers'[i].at = "sent"
               /\ merged' # merged
                    => \E i \in DOMAIN workers :
                         /\ i \notin merged
                         /\ merged' = merged \cup {i}
                         /\ workers[i].at = "computing"
                         /\ workers'[i].at = "sent"]_vars

\* five rows on two threads: three chunks, all merged, the run ended
C25_Witness ==
    /\ mode = "Parallel"
    /\ Cardinality(Chunks) = 3
    /\ njobs(stats_args.flag_jobs, env.cpus) = 2
    /\ rpc = "done"
    /\ merged = Chunks

\* C26: stats_to_records returns, whatever the number of columns and the
\* size of the pool, and what it returns holds, at every column's place,
\* the rendering of that column's bundle; a place is written once, when
\* exactly the columns before it have been received.
C26_RecordsInColumnOrder ==
    /\ <>(rpc = "done")
    /\ [](rpc = "done"
            => /\ Len(records) = Len(stats)
               /\ \A k \in DOMAIN stats : records[k] = to_record(stats[k], env.count))
    /\ [][\A k \in DOMAIN records :
            records'[k] # records[k]
               => /\ received = k - 1
                  /\ records'[k] = to_record(stats[k], env.count)]_vars

\* three columns of two different bundles rendered on a pool of one thread
C26_Witness ==
    /\ rpc = "done"
    /\ Len(stats) = 3
    /\ njobs(stats_args.flag_jobs, env.cpus) = 1
    /\ stats[1] # stats[2]
    /\ records[1] # records[2]
    /\ received = 3

\* the value domain of the column: its distinct non-empty values, and null
\* (written "_") when it has an empty value, each by its first character
DomainSize ==
    Cardinality(Distinct(rows) \ {<<>>}) + (IF <<>> \in Distinct(rows) THEN 1 ELSE 0)
DomainChars ==
    {first_lower_char(v) : v \in Distinct(rows)}
BooleanPairs ==
    {{"t", "f"}, {"t", "_"}, {"1", "0"}, {"1", "_"}, {"y", "n"}, {"y", "_"}}

\* every row written, and written as the boolean its first character says
WrittenAsBooleans ==
    \A k \in DOMAIN wtr :
        wtr[k] = IF first_lower_char(rows[k]) \in {"t", "y", "1"}
                 THEN <<"t", "r", "u", "e">> ELSE <<"f", "a", "l", "s", "e">>

\* the column of the three values T, F and f is a String column whose
\* values are written as JSON strings
ThreeValuesAreStrings ==
    Distinct(rows) = {<<"T">>, <<"F">>, <<"f">>}
        => /\ field_type_vec = Some("String")
           /\ \A k \in DOMAIN wtr : wtr[k] = <<"\"">> \o rows[k] \o <<"\"">>

====
